---------------------------- MODULE Spec2Model ----------------------------
(***************************************************************************)
(* A model of the report parsing and normalisation pipeline of the pupil   *)
(* performance analyser: the unified sheet reader (src/reading.py), the    *)
(* mark normaliser (src/analyser/models.py), the three report parsers and  *)
(* the three batch aggregators (src/analyser/parsing.py) and the summary   *)
(* labels (src/analyser/summaries.py).                                     *)
(*                                                                         *)
(* Text is a TLA+ string, read character by character with Len and SubSeq. *)
(* TLA+ strings are ASCII, so each Lithuanian letter of the source is      *)
(* written as its base letter, one character for one character: the passed *)
(* token of models.py:111 is written "isk", "klase" stands for the grade   *)
(* word of summaries.py:76, and so on. No operation of the model depends   *)
(* on the difference.                                                      *)
(*                                                                         *)
(* A Python value is a record [k, s, n, d]: k is the Python type           *)
(* ("none", "str", "int", "float", "bool") or, for a raised exception, the *)
(* exception's class; s is the text of a str; n/d is the value of a        *)
(* number, d a power of ten and n/d in lowest decimal form, so that two    *)
(* numbers are equal in Python exactly if their n and d agree.             *)
(***************************************************************************)
EXTENDS Integers, Sequences, FiniteSets, TLC

VARIABLES
    layout,     \* the batch aggregator that was called: "semester", "period", "group"
    files,      \* its argument: the files, in input order
    idx,        \* position in files of the next file of the for loop
    summaries,  \* the aggregator's local list of accepted summaries
    accepted,   \* positions in files of the accepted summaries, in order
    log,        \* what the logger received: records [file, level, reason]
    pc,         \* "loop", "returned", "raised" (an exception left the
                \* aggregator) or "hung" (a call that never returns)
    handles,    \* positions in files of the readers opened and not closed
    raw,        \* Mark.raw_value of the mark under normalisation
    result,     \* what Mark.clean returned or raised for raw
    mpc,        \* "new" before Mark.clean is evaluated, "done" after
    sheet,      \* the file whose first sheet a parser reads
    call,       \* the method called on it: [op, column, row]
    out,        \* what the call returned or raised, Unset before it is made
    target,     \* an object of the analyser: a subject, a summary, a list of them
    member,     \* the property or function evaluated on it
    answer,     \* what the evaluation gave, Unset before it is made
    summaries_copy,         \* anonymize_pupil_names: the deep copy of its argument
    cached_combinations,    \* the pseudonyms handed out so far, in order
    pupil_name_binds,       \* the pseudonym bound to each original name
    unique_name,            \* the local name of generate_unique_name: the last draw
    where       \* where anonymize_pupil_names stands: [phase, i, j]

aggVars == <<layout, files, idx, summaries, accepted, log, pc, handles>>
markVars == <<raw, result, mpc>>
sheetVars == <<sheet, call, out>>
anonVars == <<summaries_copy, cached_combinations, pupil_name_binds, unique_name, where>>
objVars == <<target, member, answer, anonVars>>
vars == <<layout, files, idx, summaries, accepted, log, pc, handles, raw, result, mpc,
          sheet, call, out, target, member, answer, summaries_copy,
          cached_combinations, pupil_name_binds, unique_name, where>>

-----------------------------------------------------------------------------
(* Python values *)

PyNone == [k |-> "none", s |-> "", n |-> 0, d |-> 1]
Str(t) == [k |-> "str", s |-> t, n |-> 0, d |-> 1]
PyInt(i) == [k |-> "int", s |-> "", n |-> i, d |-> 1]
PyBool(b) == [k |-> "bool", s |-> "", n |-> IF b THEN 1 ELSE 0, d |-> 1]
Raise(cls) == [k |-> cls, s |-> "", n |-> 0, d |-> 1]

RECURSIVE Canon(_, _)
Canon(n, d) == IF d > 1 /\ n % 10 = 0 THEN Canon(n \div 10, d \div 10) ELSE <<n, d>>

PyFloat(n, d) == [k |-> "float", s |-> "", n |-> Canon(n, d)[1], d |-> Canon(n, d)[2]]

IsNumber(v) == v.k \in {"int", "float"}
IsStr(v) == v.k = "str"
IsNone(v) == v.k = "none"
IsRaised(v) == v.k \notin {"none", "str", "int", "float", "bool"}

\* Python's == between two cell values: numbers compare by value, int with float
PyEq(a, b) ==
    IF IsNumber(a) /\ IsNumber(b) THEN a.n * b.d = b.n * a.d
    ELSE a.k = b.k /\ a.s = b.s /\ a.n = b.n

-----------------------------------------------------------------------------
(* Python str methods *)

CharAt(t, i) == SubSeq(t, i, i)
From(t, i) == SubSeq(t, i, Len(t))

EndsWith(t, suf) == Len(t) >= Len(suf) /\ SubSeq(t, Len(t) - Len(suf) + 1, Len(t)) = suf

\* t.replace(old, ""): every occurrence, left to right, removed
RECURSIVE RemoveAll(_, _)
RemoveAll(t, old) ==
    IF Len(t) < Len(old) THEN t
    ELSE IF SubSeq(t, 1, Len(old)) = old THEN RemoveAll(From(t, Len(old) + 1), old)
    ELSE CharAt(t, 1) \o RemoveAll(From(t, 2), old)

\* t.replace(old, "", 1): the first occurrence removed
RECURSIVE RemoveFirst(_, _)
RemoveFirst(t, old) ==
    IF Len(t) < Len(old) THEN t
    ELSE IF SubSeq(t, 1, Len(old)) = old THEN From(t, Len(old) + 1)
    ELSE CharAt(t, 1) \o RemoveFirst(From(t, 2), old)

DecimalChars == {"0", "1", "2", "3", "4", "5", "6", "7", "8", "9"}

DigitValue(c) ==
    CASE c = "0" -> 0 [] c = "1" -> 1 [] c = "2" -> 2 [] c = "3" -> 3 [] c = "4" -> 4
      [] c = "5" -> 5 [] c = "6" -> 6 [] c = "7" -> 7 [] c = "8" -> 8 [] c = "9" -> 9

\* str.isdecimal and str.isdigit agree on ASCII text: non-empty, decimal digits only
IsDecimal(t) == Len(t) > 0 /\ \A i \in 1..Len(t) : CharAt(t, i) \in DecimalChars
IsDigit(t) == Len(t) > 0 /\ \A i \in 1..Len(t) : CharAt(t, i) \in DecimalChars

RECURSIVE DigitsValue(_)
DigitsValue(t) ==
    IF Len(t) = 0 THEN 0
    ELSE 10 * DigitsValue(SubSeq(t, 1, Len(t) - 1)) + DigitValue(CharAt(t, Len(t)))

RECURSIVE Pow10(_)
Pow10(e) == IF e = 0 THEN 1 ELSE 10 * Pow10(e - 1)

RECURSIVE IndexOf(_, _, _)
IndexOf(t, c, i) ==
    IF i > Len(t) THEN 0 ELSE IF CharAt(t, i) = c THEN i ELSE IndexOf(t, c, i + 1)

\* float(t) for a text of digits with at most one point and at least one digit
FloatOfStr(t) ==
    LET dot == IndexOf(t, ".", 1)
        frac == IF dot = 0 THEN 0 ELSE Len(t) - dot
    IN  PyFloat(DigitsValue(RemoveFirst(t, ".")), Pow10(frac))


\* t[i:j] of Python for 0 <= i, 0 <= j: characters i+1..j, clamped to the text
Slice(t, i, j) ==
    LET hi == IF j > Len(t) THEN Len(t) ELSE j
    IN  IF i >= hi THEN "" ELSE SubSeq(t, i + 1, hi)

\* t.find(sep) + 1 searching from position i: 0 when sep does not occur
RECURSIVE Find(_, _, _)
Find(t, sep, i) ==
    IF i + Len(sep) - 1 > Len(t) THEN 0
    ELSE IF SubSeq(t, i, i + Len(sep) - 1) = sep THEN i
    ELSE Find(t, sep, i + 1)

\* t.split(sep), the list of parts
RECURSIVE Split(_, _)
Split(t, sep) ==
    LET at == Find(t, sep, 1)
    IN  IF at = 0 THEN <<t>>
        ELSE <<SubSeq(t, 1, at - 1)>> \o Split(From(t, at + Len(sep)), sep)

\* t.replace(old, new): every occurrence, left to right
RECURSIVE ReplaceAll(_, _, _)
ReplaceAll(t, old, new) ==
    IF Len(t) < Len(old) THEN t
    ELSE IF SubSeq(t, 1, Len(old)) = old
         THEN new \o ReplaceAll(From(t, Len(old) + 1), old, new)
    ELSE CharAt(t, 1) \o ReplaceAll(From(t, 2), old, new)

Whitespace == {" ", "\n", "\t"}

RECURSIVE LStrip(_)
LStrip(t) == IF Len(t) > 0 /\ CharAt(t, 1) \in Whitespace THEN LStrip(From(t, 2)) ELSE t

RECURSIVE RStrip(_)
RStrip(t) ==
    IF Len(t) > 0 /\ CharAt(t, Len(t)) \in Whitespace
    THEN RStrip(SubSeq(t, 1, Len(t) - 1)) ELSE t

Strip(t) == LStrip(RStrip(t))

\* int(t) for a text: surrounding whitespace is dropped, then an optional sign
\* and decimal digits; anything else raises ValueError
IntOfStr(t) ==
    LET u == Strip(t)
        signed == Len(u) > 0 /\ CharAt(u, 1) \in {"+", "-"}
        digits == IF signed THEN From(u, 2) ELSE u
    IN  IF ~IsDecimal(digits) THEN Raise("ValueError")
        ELSE IF signed /\ CharAt(u, 1) = "-" THEN PyInt(-DigitsValue(digits))
        ELSE PyInt(DigitsValue(digits))

\* int(v) for a cell value that is not None: a number is truncated
IntOf(v) ==
    IF IsStr(v) THEN IntOfStr(v.s)
    ELSE IF v.n >= 0 THEN PyInt(v.n \div v.d) ELSE PyInt(-((-v.n) \div v.d))

-----------------------------------------------------------------------------
(* Mark.clean, src/analyser/models.py:99-146 *)

\* models.py:130-131
StripProgramOnlyIN(t) == RemoveAll(t, "IN")
StripProgramOnlyPR(t) == RemoveAll(t, "PR")
StripProgram(t) == RemoveAll(RemoveAll(t, "IN"), "PR")

\* models.py:126
IsHourCountDotOnly(t) == EndsWith(t, "val.")
IsHourCount(t) == EndsWith(t, "val.") \/ EndsWith(t, "val")

NoMatch == [k |-> "nomatch", s |-> "", n |-> 0, d |-> 1]

\* models.py:109-127: the tokens compared with the raw text itself
CleanRawToken(t) ==
    IF t = "-" THEN PyNone
    ELSE IF t = "isk" THEN PyBool(TRUE)
    ELSE IF t = "nsk" THEN PyBool(FALSE)
    ELSE IF t = "atl" THEN PyNone
    ELSE IF t = "n" THEN PyNone
    ELSE IF t = "nk" THEN PyNone
    ELSE IF t = "nl" THEN PyNone
    ELSE IF IsHourCount(t) THEN PyNone
    ELSE NoMatch

\* models.py:132-146: the text with the program markers removed
CleanStrippedNoTokens(new_mark) ==
    IF new_mark = "0" THEN PyNone
    ELSE IF new_mark = "0.0" THEN PyNone
    ELSE IF IsDecimal(new_mark) THEN FloatOfStr(new_mark)
    ELSE IF IsDigit(RemoveFirst(new_mark, ".")) THEN FloatOfStr(new_mark)
    ELSE Raise("ValueError")
\* models.py:132-146, with an unknown text taken as no mark instead of line 146
CleanStrippedLenient(new_mark) ==
    IF new_mark = "isk" THEN PyBool(TRUE)
    ELSE IF new_mark = "nsk" THEN PyBool(FALSE)
    ELSE IF new_mark = "atl" THEN PyNone
    ELSE IF new_mark = "0" THEN PyNone
    ELSE IF new_mark = "0.0" THEN PyNone
    ELSE IF IsDecimal(new_mark) THEN FloatOfStr(new_mark)
    ELSE IF IsDigit(RemoveFirst(new_mark, ".")) THEN FloatOfStr(new_mark)
    ELSE PyNone
CleanStripped(new_mark) ==
    IF new_mark = "isk" THEN PyBool(TRUE)
    ELSE IF new_mark = "nsk" THEN PyBool(FALSE)
    ELSE IF new_mark = "atl" THEN PyNone
    ELSE IF new_mark = "0" THEN PyNone
    ELSE IF new_mark = "0.0" THEN PyNone
    ELSE IF IsDecimal(new_mark) THEN FloatOfStr(new_mark)
    ELSE IF IsDigit(RemoveFirst(new_mark, ".")) THEN FloatOfStr(new_mark)
    ELSE Raise("ValueError")

CleanStr(t) ==
    IF CleanRawToken(t) # NoMatch THEN CleanRawToken(t)
    ELSE CleanStripped(StripProgram(t))

\* models.py:101-107, with the zero test of line 105 left out
CleanKeepZero(v) ==
    IF IsNone(v) THEN PyNone
    ELSE IF IsNumber(v) THEN v
    ELSE CleanStr(v.s)
Clean(v) ==
    IF IsNone(v) THEN PyNone
    ELSE IF IsNumber(v) THEN (IF v.n = 0 THEN PyNone ELSE v)
    ELSE CleanStr(v.s)

-----------------------------------------------------------------------------
(* The subject classifier: the ignore list of src/analyser/files.py and     *)
(* UnifiedSubject of src/analyser/models.py and of src/models.py            *)

StartsWith(t, pre) == Len(t) >= Len(pre) /\ SubSeq(t, 1, Len(pre)) = pre

\* files.py:68-76: the pair (val, string) made from one stripped line
FilterAfterStar(val, string) ==
    IF StartsWith(string, "*") THEN <<val + 4, From(string, 2)>> ELSE <<val, string>>

FilterOfLine(string) ==
    IF EndsWith(string, "*") THEN FilterAfterStar(3, SubSeq(string, 1, Len(string) - 1))
    ELSE FilterAfterStar(1, string)

\* files.py:62-78: the loop over the lines of the file
RECURSIVE ReadFilters(_)
ReadFilters(lines) ==
    IF lines = <<>> THEN <<>>
    ELSE IF RStrip(Head(lines)) = "" THEN ReadFilters(Tail(lines))
    ELSE <<FilterOfLine(RStrip(Head(lines)))>> \o ReadFilters(Tail(lines))

\* get_ignored_item_filters, files.py:57-79, which models.py:11 keeps in
\* IGNORED_ITEM_FILTERS
GetIgnoredItemFilters(file) == IF ~file.exists THEN <<>> ELSE ReadFilters(file.lines)

\* word in name
Contains(name, word) == Len(word) = 0 \/ Find(name, word, 1) # 0

\* models.py:162-176: the check of one filter (t, word)
FilterCheckAlwaysContains(name, t, word) == Contains(name, word)
FilterCheck(name, t, word) ==
    IF t = 1 THEN name = word
    ELSE IF t = 3 THEN StartsWith(name, word)
    ELSE IF t = 5 THEN EndsWith(name, word)
    ELSE Contains(name, word)

\* UnifiedSubject.is_name_ignored, models.py:159-178
RECURSIVE IsNameIgnored(_, _)
IsNameIgnored(name, filters) ==
    IF filters = <<>> THEN FALSE
    ELSE IF FilterCheck(name, Head(filters)[1], Head(filters)[2]) THEN TRUE
    ELSE IsNameIgnored(name, Tail(filters))

\* models.py:153
IsModule(name) == Contains(name, "modulis")

\* UnifiedSubject.is_ignored, models.py:180-185
IsIgnored(name, filters) == IsModule(name) \/ IsNameIgnored(name, filters)

\* UnifiedSubject.is_ignored of src/models.py:134-166
LegacyIsIgnored(name) ==
    \/ name = "Neformalusis ugdymas"
    \/ name = "Neformalus ugdymas"
    \/ StartsWith(name, "Dorinis ugdymas")
    \/ IsModule(name)
    \/ StartsWith(name, "Namu ugdymas")
    \/ StartsWith(name, "Namu mokymas")
    \/ name = "Integruotas technologiju kursas"
    \/ name = "Lietuviu kalbos rasyba, skyryba ir vartojimas (konsultacijos)"
    \/ name = "Zmogaus sauga"
    \/ name = "Karjeros ugdymas"
    \/ name = "Socialine-pilietine veikla"
    \/ name = "Socialine veikla"

-----------------------------------------------------------------------------
(* Report files.  A file is described by what the platform wrote into it:   *)
(*   fmt     "xlrd" (legacy binary) or "openpyxl" (Open XML archive)          *)
(*   opens   whether SpreadsheetReader can open it                           *)
(*   kind    the layout of the export: "semester", "period" or "group"       *)
(*   hdr, term, grade   the report-type, period and grade header cells       *)
(*   marker  whether the probe row holds its marker cells                    *)
(*   nsubj   the number of subject (group layout: date) columns              *)
(*   pupils  the pupil rows: [avg |-> cell, marks |-> cells, one per column] *)
(*   footer  the cell under the last pupil in the average column             *)
(* Stored(f, c, r) is the cell written at column c, row r (1-based), PyNone  *)
(* for a cell that was left empty.  The coordinates are those the parsers of *)
(* src/analyser/parsing.py read.                                             *)

LevelCols == 2

SubjectNameAt(i) == "Dalykas " \o ToString(i)
PupilNameAt(i) == "Pavardenis Vardenis " \o ToString(i)

\* Semester layout: parsing.py:109 (term), 125 (probe row 3), 148 (grade),
\* 153-155 (pupil rows from 14, names in column 2), 165-169 (subjects from
\* column 3, names in row 4), 185 (report type), 54 (numbered column 1)
StoredSemester(f, c, r) ==
    LET avg == 3 + f.nsubj
        att == avg + 1 + LevelCols
        foot == 14 + Len(f.pupils)
    IN  IF r = 1 THEN (IF c = 9 THEN f.grade ELSE PyNone)
        ELSE IF r = 2 THEN (IF c = 1 THEN f.hdr ELSE IF c = 9 THEN f.term ELSE PyNone)
        ELSE IF r = 3 THEN
            (IF f.marker /\ c = avg + 1 THEN Str("Pasiekimu lygiai")
             ELSE IF f.marker /\ c = att THEN Str("Praleistos pamokos")
             ELSE PyNone)
        ELSE IF r = 4 THEN
            (IF c \in 3..(avg - 1) THEN Str(SubjectNameAt(c - 2))
             ELSE IF c = avg THEN Str("Vidurkis") ELSE PyNone)
        ELSE IF r \in 14..(foot - 1) THEN
            (IF c = 1 THEN PyInt(r - 13)
             ELSE IF c = 2 THEN Str(PupilNameAt(r - 13))
             ELSE IF c \in 3..(avg - 1) THEN f.pupils[r - 13].marks[c - 2]
             ELSE IF c = avg THEN f.pupils[r - 13].avg
             ELSE IF c = att THEN PyInt(3)
             ELSE IF c = att + 1 THEN PyInt(2)
             ELSE IF c = att + 3 THEN PyInt(1)
             ELSE PyNone)
        ELSE IF r = foot THEN
            (IF c = 1 THEN Str("Dalyko vidurkis") ELSE IF c = avg THEN f.footer ELSE PyNone)
        ELSE PyNone

\* Period layout: parsing.py:203 (term), 216 (probe row 2), 228 (grade),
\* 233-235 (pupil rows from 12), 245-249 (subjects from column 4, names in
\* row 3), 265 (report type)
StoredPeriod(f, c, r) ==
    LET avg == 4 + f.nsubj
        att == avg + 1
        foot == 12 + Len(f.pupils)
    IN  IF r = 1 THEN
            (IF c = 1 THEN f.hdr ELSE IF c = 5 THEN f.grade
             ELSE IF c = 7 THEN f.term ELSE PyNone)
        ELSE IF r = 2 THEN
            (IF f.marker /\ c = avg THEN Str("Vidurkis")
             ELSE IF f.marker /\ c = att THEN Str("Praleistos pamokos")
             ELSE PyNone)
        ELSE IF r = 3 THEN
            (IF c \in 4..(avg - 1) THEN Str(SubjectNameAt(c - 3)) ELSE PyNone)
        ELSE IF r \in 12..(foot - 1) THEN
            (IF c = 1 THEN PyInt(r - 11)
             ELSE IF c = 2 THEN Str(PupilNameAt(r - 11))
             ELSE IF c \in 4..(avg - 1) THEN f.pupils[r - 11].marks[c - 3]
             ELSE IF c = avg THEN f.pupils[r - 11].avg
             ELSE IF c = att THEN PyInt(3)
             ELSE IF c = att + 1 THEN PyInt(2)
             ELSE IF c = att + 3 THEN PyInt(1)
             ELSE PyNone)
        ELSE IF r = foot THEN
            (IF c = 1 THEN Str("Dalyko vidurkis") ELSE IF c = avg THEN f.footer ELSE PyNone)
        ELSE PyNone

\* Group layout: parsing.py:300 (term), 311 (header row 17 with "Vidurkis"),
\* 336 (grade), 345 (group name), 350-352 (pupil rows from 18), 362-364 (mark
\* columns from 6, their dates in row 17), 380 (report type)
StoredGroup(f, c, r) ==
    LET avg == 6 + f.nsubj
        att == avg + 1
        foot == 18 + Len(f.pupils)
    IN  IF r = 1 THEN (IF c = 1 THEN f.hdr ELSE PyNone)
        ELSE IF r = 3 THEN (IF c = 4 THEN f.term ELSE PyNone)
        ELSE IF r = 5 THEN (IF c = 4 THEN f.grade ELSE PyNone)
        ELSE IF r = 7 THEN (IF c = 4 THEN Str("Matematika") ELSE PyNone)
        ELSE IF r = 17 THEN
            (IF c = 1 THEN Str("Nr.")
             ELSE IF c = 2 THEN Str("Mokinys")
             ELSE IF c \in 6..(avg - 1) THEN Str("09\n0" \o ToString(c - 5))
             ELSE IF f.marker /\ c = avg THEN Str("Vidurkis")
             ELSE PyNone)
        ELSE IF r \in 18..(foot - 1) THEN
            (IF c = 1 THEN PyInt(r - 17)
             ELSE IF c = 2 THEN Str(PupilNameAt(r - 17))
             ELSE IF c \in 6..(avg - 1) THEN f.pupils[r - 17].marks[c - 5]
             ELSE IF c = avg THEN f.pupils[r - 17].avg
             ELSE IF c = att THEN PyInt(2)
             ELSE IF c = att + 2 THEN PyInt(3)
             ELSE IF c = att + 3 THEN PyInt(1)
             ELSE PyNone)
        ELSE IF r = foot THEN (IF c = avg THEN f.footer ELSE PyNone)
        ELSE PyNone

Stored(f, c, r) ==
    IF f.kind = "semester" THEN StoredSemester(f, c, r)
    ELSE IF f.kind = "period" THEN StoredPeriod(f, c, r)
    ELSE StoredGroup(f, c, r)

\* The extent of the sheet: its last written column and row
NCols(f) ==
    IF f.kind = "semester" THEN 3 + f.nsubj + 1 + LevelCols + 3
    ELSE IF f.kind = "period" THEN 4 + f.nsubj + 4
    ELSE 6 + f.nsubj + 4

NRows(f) ==
    IF f.kind = "semester" THEN 14 + Len(f.pupils)
    ELSE IF f.kind = "period" THEN 12 + Len(f.pupils)
    ELSE 18 + Len(f.pupils)

-----------------------------------------------------------------------------
(* UnifiedSheet.get_cell, src/reading.py:20-26 *)

\* bool(v) of Python for a cell value
Truthy(v) ==
    IF IsNone(v) THEN FALSE
    ELSE IF IsStr(v) THEN Len(v.s) > 0
    ELSE v.n # 0

\* xlrd's Sheet.cell_value(rowx, colx), 0-based: an empty cell is the empty
\* text, every number is a float, a position outside the sheet is an IndexError
XlrdValue(v) ==
    IF IsNone(v) THEN Str("")
    ELSE IF v.k = "int" THEN PyFloat(v.n, 1)
    ELSE v

XlrdCellValue(f, rowx, colx) ==
    IF rowx >= NRows(f) \/ colx >= NCols(f) THEN Raise("IndexError")
    ELSE XlrdValue(Stored(f, colx + 1, rowx + 1))

\* openpyxl's read-only Worksheet.cell(row, column).value, 1-based: an empty
\* cell and a position outside the sheet are None
OpenpyxlCellValue(f, row, column) == Stored(f, column, row)

\* "v or None" of reading.py:25 (an exception raised while v is computed
\* passes through)
OrNone(v) == IF IsRaised(v) THEN v ELSE IF Truthy(v) THEN v ELSE PyNone

GetCell(f, column, row) ==
    IF f.fmt = "xlrd" THEN OrNone(XlrdCellValue(f, row - 1, column - 1))
    ELSE OpenpyxlCellValue(f, row, column)

\* A loop that reads cells that are all outside the sheet never meets the
\* cell it waits for: the call does not return
Diverges == Raise("diverges")

-----------------------------------------------------------------------------
(* A step that can raise yields [err, val]: err is PyNone and val the value  *)
(* when it returned, err is the raised exception otherwise.                  *)

Ok(v) == [err |-> PyNone, val |-> v]
Fail(e) == [err |-> e, val |-> <<>>]
Failed(x) == x.err # PyNone

\* A value that may be a raised exception, as a step
Lift(v) == IF IsRaised(v) THEN Fail(v) ELSE Ok(v)

\* Statement sequencing: what follows a step runs only if the step returned
Then(x, K(_)) == IF Failed(x) THEN x ELSE K(x.val)

-----------------------------------------------------------------------------
(* Dates: datetime.strptime and datetime(...), as parsing.py:114-115,       *)
(* 204-206, 301-303 and 365 use them.  A date is <<year, month, day>>.      *)

IsLeap(y) == (y % 4 = 0 /\ y % 100 # 0) \/ y % 400 = 0

DaysIn(y, m) ==
    IF m = 2 THEN (IF IsLeap(y) THEN 29 ELSE 28)
    ELSE IF m \in {4, 6, 9, 11} THEN 30 ELSE 31

\* datetime(year, 1, 1): the year must lie in MINYEAR..MAXYEAR
MinYear == 1
MaxYear == 9999

YearStart(year) ==
    IF year < MinYear \/ year > MaxYear THEN Fail(Raise("ValueError"))
    ELSE Ok(<<year, 1, 1>>)

\* The %m and %d fields: one or two digits, not zero
IsDateField(t) == Len(t) \in {1, 2} /\ IsDecimal(t) /\ DigitsValue(t) > 0

\* strptime(t, "%Y-%m-%d")
ParseDate(t) ==
    LET parts == Split(t, "-")
    IN  IF Len(parts) # 3 THEN Fail(Raise("ValueError"))
        ELSE IF ~(Len(parts[1]) = 4 /\ IsDecimal(parts[1])) THEN Fail(Raise("ValueError"))
        ELSE IF ~(IsDateField(parts[2]) /\ IsDateField(parts[3])) THEN Fail(Raise("ValueError"))
        ELSE LET y == DigitsValue(parts[1])
                 m == DigitsValue(parts[2])
                 d == DigitsValue(parts[3])
             IN  IF y < MinYear \/ m > 12 \/ d > DaysIn(y, m) THEN Fail(Raise("ValueError"))
                 ELSE Ok(<<y, m, d>>)

\* strptime(t, "%m-%d"): the year defaults to 1900
DefaultYear == 1900

ParseMonthDay(t) ==
    LET parts == Split(t, "-")
    IN  IF Len(parts) # 2 THEN Fail(Raise("ValueError"))
        ELSE IF ~(IsDateField(parts[1]) /\ IsDateField(parts[2])) THEN Fail(Raise("ValueError"))
        ELSE LET m == DigitsValue(parts[1])
                 d == DigitsValue(parts[2])
             IN  IF m > 12 \/ d > DaysIn(DefaultYear, m) THEN Fail(Raise("ValueError"))
                 ELSE Ok(<<DefaultYear, m, d>>)

Pad2(i) == IF i < 10 THEN "0" \o ToString(i) ELSE ToString(i)

\* date.strftime("%m-%d")
MonthDay(date) == Pad2(date[2]) \o "-" \o Pad2(date[3])

-----------------------------------------------------------------------------
(* Summaries, src/analyser/summaries.py.  A summary is a record             *)
(*   [cls, grade_name, type, term_start, term_end, pupils]                   *)
(* cls is "semester" for ClassSemesterReportSummary and "period" for        *)
(* ClassPeriodReportSummary (whose type is "").  A pupil is                  *)
(*   [name, subjects, average, attendance], average being the raw_value of  *)
(* its Mark and subjects records [name, mark] with mark the raw_value.      *)

\* ClassReportSummary.__init__, summaries.py:67-77
GradeWord == " klase"

StoredGradeName(grade_name) ==
    IF IsDigit(grade_name) THEN grade_name \o GradeWord ELSE grade_name

NewSummary(cls, grade_name, type, term_start, term_end, pupils) ==
    [cls |-> cls, grade_name |-> StoredGradeName(grade_name), type |-> type,
     term_start |-> term_start, term_end |-> term_end, pupils |-> pupils]

\* ROMAN_VALUE_BINDINGS, summaries.py:11-16
RomanValue(t) ==
    IF t = "I" THEN 9 ELSE IF t = "II" THEN 10 ELSE IF t = "III" THEN 11
    ELSE IF t = "IV" THEN 12 ELSE -1

\* ClassReportSummary.grade_name_as_int, summaries.py:79-86
GradeNameAsIntNoRoman(sm) ==
    LET value == Split(sm.grade_name, " ")[1]
    IN  IF IsRaised(IntOfStr(value)) THEN -1 ELSE IntOfStr(value).n
GradeNameAsInt(sm) ==
    LET value == Split(sm.grade_name, " ")[1]
    IN  IF IsRaised(IntOfStr(value)) THEN RomanValue(value) ELSE IntOfStr(value).n

\* ClassSemesterReportSummary.type_as_int, summaries.py:122-136: one is added
\* for each character of the part of the type before its first blank
TypeAsIntWholeType(sm) == IF sm.type = "metinis" THEN -1 ELSE Len(sm.type)
TypeAsInt(sm) ==
    IF sm.type = "metinis" THEN -1 ELSE Len(Split(sm.type, " ")[1])

\* ClassSemesterReportSummary.period_name, summaries.py:138-144
PeriodName(sm) ==
    IF EndsWith(sm.type, "pusmetis") THEN sm.type ELSE sm.type \o " trimestras"

\* BaseReportSummary.period, summaries.py:30-33
PeriodYears(sm) == ToString(sm.term_start[1]) \o "-" \o ToString(sm.term_end[1])

\* representable_name: summaries.py:146-149 for a semester summary,
\* summaries.py:35-38 for a period summary
RepresentableName(sm) ==
    IF sm.cls = "semester"
    THEN ToString(GradeNameAsInt(sm)) \o " kl.\n" \o PeriodName(sm)
            \o "\n(" \o PeriodYears(sm) \o ")"
    ELSE MonthDay(sm.term_start) \o " - " \o MonthDay(sm.term_end)

-----------------------------------------------------------------------------
(* The parsers, src/analyser/parsing.py *)

\* BaseParser.cell, parsing.py:93-95
Cell(f, col, row) == Lift(GetCell(f, col, row))

\* BaseParser._find_last_pupil_row, parsing.py:49-60
RECURSIVE ScanLastPupilRow(_, _)
ScanLastPupilRow(f, off_row) ==
    Then(Cell(f, 1, off_row + 1), LAMBDA value :
        IF IsStr(value) THEN Ok(off_row)
        ELSE IF off_row + 1 > NRows(f) THEN Fail(Diverges)
        ELSE ScanLastPupilRow(f, off_row + 1))

FindLastPupilRow(f) == ScanLastPupilRow(f, 13)

\* GroupPeriodicReportParser._find_last_pupil_row, parsing.py:318-329
RECURSIVE GroupScanLastPupilRow(_, _)
GroupScanLastPupilRow(f, off_row) ==
    Then(Cell(f, 1, off_row + 1), LAMBDA value :
        IF IsNone(value) THEN Ok(off_row)
        ELSE GroupScanLastPupilRow(f, off_row + 1))

GroupFindLastPupilRowOnText(f) == ScanLastPupilRow(f, 17)
GroupFindLastPupilRow(f) == GroupScanLastPupilRow(f, 17)

\* PupilSemesterReportParser._find_average_column, parsing.py:120-130
RECURSIVE SemesterScanAverageColumn(_, _)
SemesterScanAverageColumn(f, off_col) ==
    Then(Cell(f, off_col + 2, 3), LAMBDA value :
        IF ~IsNone(value) THEN Ok(off_col + 1)
        ELSE IF off_col + 2 > NCols(f) THEN Fail(Diverges)
        ELSE SemesterScanAverageColumn(f, off_col + 1))

SemesterFindAverageColumn(f) == SemesterScanAverageColumn(f, 2)

\* PupilSemesterReportParser._find_attendance_column, parsing.py:132-144
RECURSIVE SemesterScanAttendanceColumn(_, _, _)
SemesterScanAttendanceColumn(f, offset, string_encountered_before) ==
    Then(Cell(f, offset + 1, 3), LAMBDA value :
        IF IsStr(value) /\ string_encountered_before THEN Ok(offset + 1)
        ELSE IF offset + 1 > NCols(f) THEN Fail(Diverges)
        ELSE SemesterScanAttendanceColumn(f, offset + 1,
                                          string_encountered_before \/ IsStr(value)))

SemesterFindAttendanceColumnFirstText(f, average_col) ==
    SemesterScanAttendanceColumn(f, average_col, TRUE)
SemesterFindAttendanceColumn(f, average_col) ==
    SemesterScanAttendanceColumn(f, average_col, FALSE)

\* PupilPeriodicReportParser._find_average_column, parsing.py:211-221
RECURSIVE PeriodScanAverageColumn(_, _)
PeriodScanAverageColumnAfter(f, off_col) ==
    Then(Cell(f, off_col + 1, 2), LAMBDA value :
        IF ~IsNone(value) THEN Ok(off_col + 2)
        ELSE IF off_col + 1 > NCols(f) THEN Fail(Diverges)
        ELSE PeriodScanAverageColumn(f, off_col + 1))
PeriodScanAverageColumn(f, off_col) ==
    Then(Cell(f, off_col + 1, 2), LAMBDA value :
        IF ~IsNone(value) THEN Ok(off_col + 1)
        ELSE IF off_col + 1 > NCols(f) THEN Fail(Diverges)
        ELSE PeriodScanAverageColumn(f, off_col + 1))

PeriodFindAverageColumn(f) == PeriodScanAverageColumn(f, 4)

\* GroupPeriodicReportParser._find_average_column, parsing.py:306-316
RECURSIVE GroupScanAverageColumn(_, _)
GroupScanAverageColumn(f, off_col) ==
    Then(Cell(f, off_col + 1, 17), LAMBDA value :
        IF PyEq(value, Str("Vidurkis")) THEN Ok(off_col + 1)
        ELSE IF off_col + 1 > NCols(f) THEN Fail(Diverges)
        ELSE GroupScanAverageColumn(f, off_col + 1))

GroupFindAverageColumn(f) == GroupScanAverageColumn(f, 4)

\* convert_value of get_pupil_attendance, parsing.py:69-73, on a cell
ConvertValue(v) == IF IsNone(v) THEN PyInt(0) ELSE IntOf(v)

ConvertCell(f, col, row) ==
    Then(Cell(f, col, row), LAMBDA v : Lift(ConvertValue(v)))

\* The four cells of an attendance block in the order the Attendance
\* constructor receives them
AttendanceOf(f, cols, pupil_row) ==
    Then(ConvertCell(f, cols[1], pupil_row), LAMBDA a :
    Then(ConvertCell(f, cols[2], pupil_row), LAMBDA b :
    Then(ConvertCell(f, cols[3], pupil_row), LAMBDA c :
    Then(ConvertCell(f, cols[4], pupil_row), LAMBDA d :
    Ok(<<a.n, b.n, c.n, d.n>>)))))

\* BaseParser.get_pupil_attendance, parsing.py:66-80
GetPupilAttendance(f, att, pupil_row) ==
    AttendanceOf(f, <<att, att + 1, att + 2, att + 3>>, pupil_row)

\* GroupParser.get_pupil_attendance, parsing.py:280-294
GroupGetPupilAttendance(f, att, pupil_row) ==
    AttendanceOf(f, <<att + 2, att, att + 1, att + 3>>, pupil_row)

\* BaseParser.get_pupil_average, parsing.py:82-87: the Mark's raw_value
GetPupilAverage(f, average_col, pupil_row) ==
    Then(Cell(f, average_col, pupil_row), LAMBDA value :
        IF IsNumber(value) /\ value.n = 0 THEN Ok(PyNone) ELSE Ok(value))

\* get_pupil_subjects, parsing.py:162-176 and 242-256: the columns from
\* first_col up to the average column, subject names in name_row.  Mark(...)
\* stores the cell as raw_value (models.py:81-83); nothing is normalised here.
RECURSIVE ScanPupilSubjects(_, _, _, _, _)
ScanPupilSubjects(f, col, average_col, name_row, pupil_row) ==
    IF col >= average_col THEN Ok(<<>>)
    ELSE
    Then(Cell(f, col, name_row), LAMBDA name :
    IF ~IsStr(name) THEN Fail(Raise("AssertionError")) ELSE
    Then(Cell(f, col, pupil_row), LAMBDA mark :
    Then(ScanPupilSubjects(f, col + 1, average_col, name_row, pupil_row), LAMBDA rest :
    Ok(<<[name |-> name.s, mark |-> mark]>> \o rest))))

-----------------------------------------------------------------------------
(* The three report parsers: constructor and create_summary *)

ReportTypeSemester == "Ataskaita: Mokiniu pasiekimu ir lankomumo suvestine"
ReportTypePeriod == "Ataskaita: Mokiniu vidurkiu suvestine"
ReportTypeGroup == "Ataskaita pagal grupe"

\* SpreadsheetReader.__init__, reading.py:34-50: a file that cannot be opened
\* or is no workbook raises
OpenReader(f) == IF f.opens THEN PyNone ELSE Raise("OSError")

\* PupilSemesterReportParser.__init__, parsing.py:106-118: the parser's
\* term_start, term_end and type
SemesterParser(f) ==
    IF IsRaised(OpenReader(f)) THEN Fail(OpenReader(f))
    ELSE LET raw_term_value == GetCell(f, 9, 2)
         IN  IF IsRaised(raw_term_value) THEN Fail(raw_term_value)
             ELSE IF ~IsStr(raw_term_value) THEN Fail(Raise("AttributeError"))
             ELSE IF Len(Split(raw_term_value.s, ": ")) < 2 THEN Fail(Raise("IndexError"))
             ELSE LET term_value == Split(Strip(Split(raw_term_value.s, ": ")[2]), "-")
                      y0 == IntOfStr(term_value[1])
                      y1 == IntOfStr(Slice(term_value[2], 0, 4))
                  IN  IF IsRaised(y0) THEN Fail(y0)
                      ELSE IF Failed(YearStart(y0.n)) THEN YearStart(y0.n)
                      ELSE IF Len(term_value) < 2 THEN Fail(Raise("IndexError"))
                      ELSE IF IsRaised(y1) THEN Fail(y1)
                      ELSE IF Failed(YearStart(y1.n)) THEN YearStart(y1.n)
                      ELSE Ok([term_start |-> YearStart(y0.n).val,
                               term_end |-> YearStart(y1.n).val,
                               type |-> Slice(term_value[2], 8, Len(term_value[2]))])

\* UnifiedPupil(name, subjects, average, attendance), parsing.py:154-159
NewPupil(name, subjects, average, attendance) ==
    [name |-> name, subjects |-> subjects, average |-> average,
     attendance |-> attendance]

\* PupilSemesterReportParser.get_pupil_data, parsing.py:150-160
RECURSIVE SemesterPupilData(_, _, _, _)
SemesterPupilData(f, row, average_col, last_row) ==
    IF row > last_row THEN Ok(<<>>)
    ELSE
    Then(Cell(f, 2, row), LAMBDA name :
    Then(ScanPupilSubjects(f, 3, average_col, 4, row), LAMBDA subjects :
    Then(GetPupilAverage(f, average_col, row), LAMBDA average :
    Then(SemesterFindAttendanceColumn(f, average_col), LAMBDA attendance_column :
    Then(GetPupilAttendance(f, attendance_column, row), LAMBDA attendance :
    Then(SemesterPupilData(f, row + 1, average_col, last_row), LAMBDA rest :
    Ok(<<NewPupil(name, subjects, average, attendance)>> \o rest)))))))

\* The report-type check of PupilSemesterReportParser.create_summary,
\* parsing.py:185
SemesterTypeOk(f) ==
    Then(Cell(f, 1, 2), LAMBDA cell : Ok(PyEq(cell, Str(ReportTypeSemester))))

\* The incomplete-period check of create_summary, parsing.py:189, 269, 384:
\* the cell under the last pupil in the average column compared with 0
FooterIsZero(f, average_col, last_row) ==
    Then(Cell(f, average_col, last_row + 1), LAMBDA cell :
        Ok(IsNumber(cell) /\ cell.n = 0))

\* PupilSemesterReportParser.get_grade_name, parsing.py:146-148
SemesterGradeName(f) ==
    Then(Cell(f, 9, 1), LAMBDA cell :
        IF ~IsStr(cell) THEN Fail(Raise("TypeError"))
        ELSE Ok(Slice(cell.s, 7, Len(cell.s))))

\* parsing.py:178-197 with the test of lines 188-190 placed before the test of
\* lines 185-186
SemesterCreateSummaryFooterFirst(f, parser) ==
    Then(SemesterFindAverageColumn(f), LAMBDA average_col :
    Then(FindLastPupilRow(f), LAMBDA last_row :
    Then(FooterIsZero(f, average_col, last_row), LAMBDA zero :
    IF zero THEN Fail(Raise("InconclusiveResourceError")) ELSE
    Then(SemesterTypeOk(f), LAMBDA type_ok :
    IF ~type_ok THEN Fail(Raise("InvalidResourceTypeError")) ELSE
    Then(SemesterGradeName(f), LAMBDA grade_name :
    Then(SemesterPupilData(f, 14, average_col, last_row), LAMBDA pupils :
    Ok(NewSummary("semester", grade_name, parser.type,
                  parser.term_start, parser.term_end, pupils))))))))
\* PupilSemesterReportParser.create_summary, parsing.py:178-197
SemesterCreateSummary(f, parser) ==
    Then(SemesterTypeOk(f), LAMBDA type_ok :
    IF ~type_ok THEN Fail(Raise("InvalidResourceTypeError")) ELSE
    Then(SemesterFindAverageColumn(f), LAMBDA average_col :
    Then(FindLastPupilRow(f), LAMBDA last_row :
    Then(FooterIsZero(f, average_col, last_row), LAMBDA zero :
    IF zero THEN Fail(Raise("InconclusiveResourceError")) ELSE
    Then(SemesterGradeName(f), LAMBDA grade_name :
    Then(SemesterPupilData(f, 14, average_col, last_row), LAMBDA pupils :
    Ok(NewSummary("semester", grade_name, parser.type,
                  parser.term_start, parser.term_end, pupils))))))))

\* The term cell of the period and group layouts: "start - end", parsing.py:
\* 203-207 and 300-304
ParseTerm(cell) ==
    IF IsRaised(cell) THEN Fail(cell)
    ELSE IF ~IsStr(cell) THEN Fail(Raise("AttributeError"))
    ELSE LET term_value == Split(cell.s, " - ")
         IN  IF Failed(ParseDate(term_value[1])) THEN ParseDate(term_value[1])
             ELSE IF Len(term_value) < 2 THEN Fail(Raise("IndexError"))
             ELSE IF Failed(ParseDate(term_value[2])) THEN ParseDate(term_value[2])
             ELSE Ok([term_start |-> ParseDate(term_value[1]).val,
                      term_end |-> ParseDate(term_value[2]).val,
                      type |-> ""])

\* PupilPeriodicReportParser.__init__, parsing.py:201-209
PeriodParser(f) ==
    IF IsRaised(OpenReader(f)) THEN Fail(OpenReader(f)) ELSE ParseTerm(GetCell(f, 7, 1))

\* PupilPeriodicReportParser.get_pupil_data, parsing.py:230-240
RECURSIVE PeriodPupilData(_, _, _, _)
PeriodPupilData(f, row, average_col, last_row) ==
    IF row > last_row THEN Ok(<<>>)
    ELSE
    Then(Cell(f, 2, row), LAMBDA name :
    Then(ScanPupilSubjects(f, 4, average_col, 3, row), LAMBDA subjects :
    Then(GetPupilAverage(f, average_col, row), LAMBDA average :
    Then(GetPupilAttendance(f, average_col + 1, row), LAMBDA attendance :
    Then(PeriodPupilData(f, row + 1, average_col, last_row), LAMBDA rest :
    Ok(<<NewPupil(name, subjects, average, attendance)>> \o rest))))))

\* The report-type check of PupilPeriodicReportParser.create_summary,
\* parsing.py:265
PeriodTypeOk(f) ==
    Then(Cell(f, 1, 1), LAMBDA cell :
        IF ~IsStr(cell) THEN Fail(Raise("TypeError"))
        ELSE Ok(Slice(cell.s, 0, Len(cell.s) - 1) = ReportTypePeriod))

\* PupilPeriodicReportParser.get_grade_name, parsing.py:226-228
PeriodGradeName(f) ==
    Then(Cell(f, 5, 1), LAMBDA cell :
        IF ~IsStr(cell) THEN Fail(Raise("TypeError"))
        ELSE Ok(Slice(cell.s, 7, Len(cell.s) - 2)))

\* PupilPeriodicReportParser.create_summary, parsing.py:258-276
PeriodCreateSummary(f, parser) ==
    Then(PeriodTypeOk(f), LAMBDA type_ok :
    IF ~type_ok THEN Fail(Raise("InvalidResourceTypeError")) ELSE
    Then(PeriodFindAverageColumn(f), LAMBDA average_col :
    Then(FindLastPupilRow(f), LAMBDA last_row :
    Then(FooterIsZero(f, average_col, last_row), LAMBDA zero :
    IF zero THEN Fail(Raise("InconclusiveResourceError")) ELSE
    Then(PeriodGradeName(f), LAMBDA grade_name :
    Then(PeriodPupilData(f, 12, average_col, last_row), LAMBDA pupils :
    Ok(NewSummary("period", grade_name, "",
                  parser.term_start, parser.term_end, pupils))))))))

\* GroupPeriodicReportParser.__init__, parsing.py:298-304
GroupParser(f) ==
    IF IsRaised(OpenReader(f)) THEN Fail(OpenReader(f)) ELSE ParseTerm(GetCell(f, 4, 3))

\* GroupPeriodicReportParser.get_grade_name, parsing.py:334-341
GroupGradeName(f) ==
    Then(Cell(f, 4, 5), LAMBDA val :
        Ok(IF IsNumber(val) THEN Str(ToString(IntOf(val).n)) ELSE val))

\* GroupPeriodicReportParser.get_pupil_subjects, parsing.py:359-371: one
\* subject per date column, named after the group, the Mark dated
RECURSIVE GroupScanPupilSubjects(_, _, _, _)
GroupScanPupilSubjects(f, col, average_col, pupil_row) ==
    IF col >= average_col THEN Ok(<<>>)
    ELSE
    Then(Cell(f, col, 17), LAMBDA raw_date :
    IF ~IsStr(raw_date) THEN Fail(Raise("AttributeError")) ELSE
    Then(ParseMonthDay(ReplaceAll(raw_date.s, "\n", "-")), LAMBDA date :
    Then(Cell(f, 4, 7), LAMBDA name :
    Then(Cell(f, col, pupil_row), LAMBDA mark :
    IF ~IsStr(name) THEN Fail(Raise("TypeError")) ELSE
    Then(GroupScanPupilSubjects(f, col + 1, average_col, pupil_row), LAMBDA rest :
    Ok(<<[name |-> name.s, mark |-> mark, date |-> date]>> \o rest))))))

\* GroupPeriodicReportParser.get_pupil_data, parsing.py:347-357
RECURSIVE GroupPupilData(_, _, _, _)
GroupPupilData(f, row, average_col, last_row) ==
    IF row > last_row THEN Ok(<<>>)
    ELSE
    Then(Cell(f, 2, row), LAMBDA name :
    Then(GroupScanPupilSubjects(f, 6, average_col, row), LAMBDA subjects :
    Then(GetPupilAverage(f, average_col, row), LAMBDA average :
    Then(GroupGetPupilAttendance(f, average_col + 1, row), LAMBDA attendance :
    Then(GroupPupilData(f, row + 1, average_col, last_row), LAMBDA rest :
    Ok(<<NewPupil(name, subjects, average, attendance)>> \o rest))))))

\* The report-type check of GroupPeriodicReportParser.create_summary,
\* parsing.py:380
GroupTypeOk(f) ==
    Then(Cell(f, 1, 1), LAMBDA cell : Ok(PyEq(cell, Str(ReportTypeGroup))))

\* GroupPeriodicReportParser.create_summary, parsing.py:373-391.  The grade
\* name is used by ClassReportSummary.__init__ (summaries.py:71) only.
GroupCreateSummary(f, parser) ==
    Then(GroupTypeOk(f), LAMBDA type_ok :
    IF ~type_ok THEN Fail(Raise("InvalidResourceTypeError")) ELSE
    Then(GroupFindAverageColumn(f), LAMBDA average_col :
    Then(GroupFindLastPupilRow(f), LAMBDA last_row :
    Then(FooterIsZero(f, average_col, last_row), LAMBDA zero :
    IF zero THEN Fail(Raise("InconclusiveResourceError")) ELSE
    Then(GroupGradeName(f), LAMBDA grade_name :
    Then(GroupPupilData(f, 18, average_col, last_row), LAMBDA pupils :
    IF ~IsStr(grade_name) THEN Fail(Raise("AttributeError")) ELSE
    Ok(NewSummary("period", grade_name.s, "",
                  parser.term_start, parser.term_end, pupils))))))))

\* The try block of an aggregator's loop body, parsing.py:400-409, 434-443,
\* 468-477: construct the parser, create the summary
NewParser(lay, f) ==
    IF lay = "semester" THEN SemesterParser(f)
    ELSE IF lay = "period" THEN PeriodParser(f)
    ELSE GroupParser(f)

CreateSummary(lay, f, parser) ==
    IF Failed(parser) THEN parser
    ELSE IF lay = "semester" THEN SemesterCreateSummary(f, parser.val)
    ELSE IF lay = "period" THEN PeriodCreateSummary(f, parser.val)
    ELSE GroupCreateSummary(f, parser.val)

Parse(lay, f) == CreateSummary(lay, f, NewParser(lay, f))

-----------------------------------------------------------------------------
(* The batch aggregators, parsing.py:393-493 *)

\* The attributes a summary object has: BaseReportSummary.__init__,
\* summaries.py:22-28, ClassReportSummary.__init__, summaries.py:67-77, and
\* ClassSemesterReportSummary.__init__, summaries.py:109-117
SummaryAttributes(sm) ==
    IF sm.cls = "semester"
    THEN {"grade_name", "term_start", "term_end", "pupils", "type"}
    ELSE {"grade_name", "term_start", "term_end", "pupils"}

\* parsing.py:449 and 483: any(s.average is None for s in summary.students).
\* Reading an attribute the object lacks raises AttributeError.  A pupil's
\* average is the Mark object that get_pupil_average built (parsing.py:82-87),
\* which is not None whatever its raw_value is.
AnyAverageIsNone(sm) ==
    IF "students" \notin SummaryAttributes(sm) THEN Fail(Raise("AttributeError"))
    ELSE Ok(FALSE)

\* parsing.py:415, 445, 479
AlreadySubmitted(sums, sm) ==
    \E i \in 1..Len(sums) : RepresentableName(sums[i]) = RepresentableName(sm)

ParsingErrors == {"InvalidResourceTypeError", "InconclusiveResourceError"}

LogEntry(file, level, reason) == [file |-> file, level |-> level, reason |-> reason]

\* except ParsingError: logger.error; except Exception: logger.exception
RejectionOf(file, e) ==
    LogEntry(file, IF e.k \in ParsingErrors THEN "error" ELSE "exception", e.k)

\* The readers left open after one pass of the try block, parsing.py:400-403:
\* SpreadsheetReader.__init__ opens the file, close (parsing.py:89-91,
\* reading.py:59-67) is the last statement of the try block and is reached
\* only if the constructor and create_summary return
HandlesAfter(f, parsed) ==
    IF f.opens /\ Failed(parsed) THEN handles \cup {idx} ELSE handles

\* parsing.py:396-420 without the test of lines 411-413
SemesterLoopBodyKeepAnnual(parsed) ==
    IF parsed.err = Diverges
    THEN /\ pc' = "hung"
         /\ handles' = HandlesAfter(files[idx], parsed)
         /\ UNCHANGED <<idx, summaries, accepted, log>>
    ELSE /\ pc' = pc
         /\ handles' = HandlesAfter(files[idx], parsed)
         /\ idx' = idx + 1
         /\ IF Failed(parsed)
            THEN /\ log' = Append(log, RejectionOf(idx, parsed.err))
                 /\ UNCHANGED <<summaries, accepted>>
            ELSE IF AlreadySubmitted(summaries, parsed.val)
            THEN /\ log' = Append(log, LogEntry(idx, "warn", "duplicate"))
                 /\ UNCHANGED <<summaries, accepted>>
            ELSE /\ summaries' = Append(summaries, parsed.val)
                 /\ accepted' = Append(accepted, idx)
                 /\ log' = Append(log, LogEntry(idx, "debug", "read"))
\* parsing.py:396-420 with the summary put in front of the list at line 419
SemesterLoopBodyPrepend(parsed) ==
    IF parsed.err = Diverges
    THEN /\ pc' = "hung"
         /\ handles' = HandlesAfter(files[idx], parsed)
         /\ UNCHANGED <<idx, summaries, accepted, log>>
    ELSE /\ pc' = pc
         /\ handles' = HandlesAfter(files[idx], parsed)
         /\ idx' = idx + 1
         /\ IF Failed(parsed)
            THEN /\ log' = Append(log, RejectionOf(idx, parsed.err))
                 /\ UNCHANGED <<summaries, accepted>>
            ELSE IF parsed.val.type = "metinis"
            THEN /\ log' = Append(log, LogEntry(idx, "warn", "annual"))
                 /\ UNCHANGED <<summaries, accepted>>
            ELSE IF AlreadySubmitted(summaries, parsed.val)
            THEN /\ log' = Append(log, LogEntry(idx, "warn", "duplicate"))
                 /\ UNCHANGED <<summaries, accepted>>
            ELSE /\ summaries' = <<parsed.val>> \o summaries
                 /\ accepted' = <<idx>> \o accepted
                 /\ log' = Append(log, LogEntry(idx, "debug", "read"))
\* One pass of the for loop of parse_semester_summary_files, parsing.py:396-420
SemesterLoopBody(parsed) ==
    IF parsed.err = Diverges
    THEN /\ pc' = "hung"
         /\ handles' = HandlesAfter(files[idx], parsed)
         /\ UNCHANGED <<idx, summaries, accepted, log>>
    ELSE /\ pc' = pc
         /\ handles' = HandlesAfter(files[idx], parsed)
         /\ idx' = idx + 1
         /\ IF Failed(parsed)
            THEN /\ log' = Append(log, RejectionOf(idx, parsed.err))
                 /\ UNCHANGED <<summaries, accepted>>
            ELSE IF parsed.val.type = "metinis"
            THEN /\ log' = Append(log, LogEntry(idx, "warn", "annual"))
                 /\ UNCHANGED <<summaries, accepted>>
            ELSE IF AlreadySubmitted(summaries, parsed.val)
            THEN /\ log' = Append(log, LogEntry(idx, "warn", "duplicate"))
                 /\ UNCHANGED <<summaries, accepted>>
            ELSE /\ summaries' = Append(summaries, parsed.val)
                 /\ accepted' = Append(accepted, idx)
                 /\ log' = Append(log, LogEntry(idx, "debug", "read"))

SemesterStep ==
    /\ layout = "semester" /\ pc = "loop" /\ idx <= Len(files)
    /\ SemesterLoopBody(Parse("semester", files[idx]))
    /\ UNCHANGED <<layout, files>>

\* One pass of the for loop of parse_periodic_summary_files, parsing.py:430-454,
\* and of parse_group_summary_files, parsing.py:464-488, which differ in the
\* parser only
PeriodicLoopBody(parsed) ==
    /\ handles' = HandlesAfter(files[idx], parsed)
    /\ (IF parsed.err = Diverges
        THEN pc' = "hung" /\ UNCHANGED <<idx, summaries, accepted, log>>
        ELSE IF Failed(parsed)
        THEN /\ log' = Append(log, RejectionOf(idx, parsed.err))
             /\ idx' = idx + 1
             /\ UNCHANGED <<pc, summaries, accepted>>
        ELSE IF AlreadySubmitted(summaries, parsed.val)
        THEN /\ log' = Append(log, LogEntry(idx, "warn", "duplicate"))
             /\ idx' = idx + 1
             /\ UNCHANGED <<pc, summaries, accepted>>
        ELSE IF Failed(AnyAverageIsNone(parsed.val))
        THEN pc' = "raised" /\ UNCHANGED <<idx, summaries, accepted, log>>
        ELSE IF AnyAverageIsNone(parsed.val).val
        THEN /\ log' = Append(log, LogEntry(idx, "warn", "incomplete"))
             /\ idx' = idx + 1
             /\ UNCHANGED <<pc, summaries, accepted>>
        ELSE /\ summaries' = Append(summaries, parsed.val)
             /\ accepted' = Append(accepted, idx)
             /\ log' = Append(log, LogEntry(idx, "debug", "read"))
             /\ idx' = idx + 1
             /\ pc' = pc )

PeriodStep ==
    /\ layout = "period" /\ pc = "loop" /\ idx <= Len(files)
    /\ PeriodicLoopBody(Parse("period", files[idx]))
    /\ UNCHANGED <<layout, files>>

GroupStep ==
    /\ layout = "group" /\ pc = "loop" /\ idx <= Len(files)
    /\ PeriodicLoopBody(Parse("group", files[idx]))
    /\ UNCHANGED <<layout, files>>

\* After the loop, parsing.py:422-425, 456-459, 490-493
Return ==
    /\ pc = "loop" /\ idx > Len(files)
    /\ log' = IF Len(summaries) = 0
              THEN Append(log, LogEntry(0, "error", "nothing usable"))
              ELSE log
    /\ pc' = "returned"
    /\ UNCHANGED <<layout, files, idx, summaries, accepted, handles>>

-----------------------------------------------------------------------------
(* The files an aggregator is called with *)

MaxFiles == 2

Layouts == {"semester", "period", "group"}
Formats == {"xlrd", "openpyxl"}

ReportTypeOf(kind) ==
    IF kind = "semester" THEN ReportTypeSemester
    ELSE IF kind = "period" THEN ReportTypePeriod \o " "
    ELSE ReportTypeGroup

GradeCellOf(kind) ==
    IF kind = "semester" THEN Str("Klase: 5")
    ELSE IF kind = "period" THEN Str("Klase: 5, ")
    ELSE PyInt(5)

\* Well-formed period cells: three different periods, the third the second
\* one school year later
TermsOf(kind) ==
    IF kind = "semester"
    THEN <<Str("Laikotarpis: 2020-2021m.m.I pusmetis"),
           Str("Laikotarpis: 2020-2021m.m.II pusmetis"),
           Str("Periodas: 2021-2022m.m.II pusmetis")>>
    ELSE <<Str("2021-09-01 - 2021-10-31"),
           Str("2021-11-01 - 2021-12-31"),
           Str("2022-11-01 - 2022-12-31")>>

AnnualTerm == Str("Laikotarpis: 2020-2021m.m.metinis")
BadTerms == {PyNone, Str("2021-09-01")}

RowA == [avg |-> PyFloat(81, 10), marks |-> <<PyInt(9), Str("isk")>>]
RowB == [avg |-> PyInt(7), marks |-> <<Str("7PR"), PyNone>>]
RowBlankAverage == [avg |-> PyNone, marks |-> <<PyInt(5), PyInt(6)>>]
RowZeroAverage == [avg |-> PyInt(0), marks |-> <<PyInt(5), Str("nsk")>>]
RowUnknownMark == [avg |-> PyInt(8), marks |-> <<Str("abc"), PyInt(8)>>]
RowUnknownAverage == [avg |-> Str("x9"), marks |-> <<PyInt(4), PyInt(8)>>]

GoodRows == <<RowA, RowB>>

OddRows ==
    {<<RowA, RowBlankAverage>>, <<RowZeroAverage, RowB>>, <<RowA, RowUnknownMark>>,
     <<RowUnknownAverage, RowB>>, <<RowA>>, <<>>}

File(kind, fmt, opens, hdr, term, marker, rows, footer) ==
    [kind |-> kind, fmt |-> fmt, opens |-> opens, hdr |-> hdr, term |-> term,
     grade |-> GradeCellOf(kind), marker |-> marker, nsubj |-> 2,
     pupils |-> rows, footer |-> footer]

GoodFile(kind, fmt, t) ==
    File(kind, fmt, TRUE, Str(ReportTypeOf(kind)), TermsOf(kind)[t], TRUE, GoodRows,
         PyFloat(81, 10))

\* The files of one layout: the well-formed ones, and the first of them
\* changed in one place (two for the last but one)
FilesOf(kind) ==
    {GoodFile(kind, fmt, t) : fmt \in Formats, t \in 1..2}
    \cup {GoodFile(kind, "openpyxl", 3)}
    \cup {[GoodFile(kind, "openpyxl", 1) EXCEPT !.pupils = rows] : rows \in OddRows}
    \cup {[GoodFile(kind, fmt, 1) EXCEPT !.footer = PyInt(0)] : fmt \in Formats}
    \cup {[GoodFile(kind, "openpyxl", 1) EXCEPT !.footer = PyNone]}
    \cup {[GoodFile(kind, "openpyxl", 1) EXCEPT !.hdr = hdr] :
            hdr \in {PyNone, Str("Ataskaita"), Str(ReportTypeOf(kind) \o "*"),
                     Str(ReportTypePeriod)}}
    \cup {[GoodFile(kind, fmt, 1) EXCEPT !.marker = FALSE] : fmt \in Formats}
    \cup {[GoodFile(kind, "openpyxl", 1) EXCEPT !.term = term] : term \in BadTerms}
    \cup {[GoodFile(kind, "openpyxl", 1) EXCEPT !.opens = FALSE]}
    \cup {[GoodFile(kind, "openpyxl", 1) EXCEPT !.hdr = Str("Ataskaita"), !.footer = PyInt(0)]}
    \cup (IF kind = "semester"
          THEN {[GoodFile(kind, "openpyxl", 1) EXCEPT !.term = AnnualTerm]}
          ELSE {})

\* What an aggregator may be given: files of its own layout, and a
\* well-formed file of each other layout
InputFiles(lay) ==
    FilesOf(lay) \cup {GoodFile(kind, "openpyxl", 1) : kind \in Layouts \ {lay}}

-----------------------------------------------------------------------------
(* Raw values the normaliser is applied to *)

MaxLen == 4
MaxNum == 12

MarkAlphabet == {"0", "9", ".", "I", "N", "P", "R", "n"}

RECURSIVE TextsOfLen(_)
TextsOfLen(len) ==
    IF len = 0 THEN {""}
    ELSE {t \o c : t \in TextsOfLen(len - 1), c \in MarkAlphabet}

ShortTexts == UNION {TextsOfLen(len) : len \in 0..MaxLen}

MarkCores ==
    {"-", "isk", "nsk", "atl", "n", "nk", "nl", "val", "val.", "4 val.", "12 val",
     "1", "9", "9.7", "1.1", "0", "0.0", "00", "10", "abc", "neisk", "",
     "isk val", "9val.", "x val"}

Decorations == {"", "IN", "PR", "ININ", "INPR", "PRIN"}

DecoratedTexts == {c \o dec : c \in MarkCores, dec \in Decorations}
    \cup {dec \o c : c \in MarkCores, dec \in Decorations}

RawNumbers ==
    {PyInt(i) : i \in -1..MaxNum}
    \cup {PyFloat(i, 10) : i \in -10..(10 * MaxNum)}

RawValues == {PyNone} \cup RawNumbers \cup {Str(t) : t \in ShortTexts \cup DecoratedTexts}

Unset == [k |-> "unset", s |-> "", n |-> 0, d |-> 1]

-----------------------------------------------------------------------------
(* The sheets and the calls made on them one at a time *)

\* The files of every layout, each with one subject column and with as many
\* as its pupil rows have marks
Sheets ==
    {[f EXCEPT !.nsubj = n] : f \in UNION {FilesOf(kind) : kind \in Layouts},
                              n \in 1..Len(RowA.marks)}

Locators == {"_find_average_column", "_find_last_pupil_row"}

NoCall == [op |-> "", column |-> 0, row |-> 0]

\* get_cell on every cell of the sheet and one column and one row beyond it,
\* and each locator of the parser of the sheet's layout
CallsOn(f) ==
    {[op |-> "get_cell", column |-> c, row |-> r] :
        c \in 1..(NCols(f) + 1), r \in 1..(NRows(f) + 1)}
    \cup {[op |-> op, column |-> 0, row |-> 0] : op \in Locators}

\* The first pupil row of each layout, parsing.py:153, 233, 347
FirstPupilRow(f) ==
    IF f.kind = "semester" THEN 14 ELSE IF f.kind = "period" THEN 12 ELSE 18

\* _find_attendance_column, get_pupil_data and, for each pupil row,
\* get_pupil_attendance
AttendanceCallsOn(f) ==
    {[op |-> "_find_attendance_column", column |-> 0, row |-> 0],
     [op |-> "get_pupil_data", column |-> 0, row |-> 0]}
    \cup {[op |-> "get_pupil_attendance", column |-> 0, row |-> r] :
            r \in FirstPupilRow(f)..(NRows(f) - 1)}

\* What a locator leaves in the parser's attribute, or what it raises
Outcome(x) == IF Failed(x) THEN x.err ELSE PyInt(x.val)

\* The _find_average_column of the parser class of the layout
FindAverageColumnOf(f) ==
    IF f.kind = "semester" THEN SemesterFindAverageColumn(f)
    ELSE IF f.kind = "period" THEN PeriodFindAverageColumn(f)
    ELSE GroupFindAverageColumn(f)

\* The attendance_column property of the parser class of the layout,
\* parsing.py:41-43, 132-144, 223-224, 330-331
FindAttendanceColumnOf(f) ==
    Then(FindAverageColumnOf(f), LAMBDA average_col :
        IF f.kind = "semester" THEN SemesterFindAttendanceColumn(f, average_col)
        ELSE Ok(average_col + 1))

\* get_pupil_attendance of the parser class of the layout, parsing.py:66-80,
\* 280-294
GetPupilAttendanceOf(f, pupil_row) ==
    Then(FindAttendanceColumnOf(f), LAMBDA att :
        IF f.kind = "group" THEN GroupGetPupilAttendance(f, att, pupil_row)
        ELSE GetPupilAttendance(f, att, pupil_row))

\* An Attendance object as a value: its four constructor arguments in order
AttendanceText(a) ==
    ToString(a[1]) \o "," \o ToString(a[2]) \o "," \o ToString(a[3]) \o ","
        \o ToString(a[4])

AttendanceOutcome(x) ==
    IF Failed(x) THEN x.err
    ELSE [k |-> "Attendance", s |-> AttendanceText(x.val), n |-> 0, d |-> 1]

\* The _find_last_pupil_row of the parser class of the layout
FindLastPupilRowOf(f) ==
    IF f.kind = "group" THEN GroupFindLastPupilRow(f) ELSE FindLastPupilRow(f)

\* get_pupil_data of the parser class of the layout, parsing.py:150-160,
\* 230-240, 347-356: last_pupil_row is located for the range, the average
\* column when the first row is read
GetPupilDataOf(f) ==
    Then(FindLastPupilRowOf(f), LAMBDA last_row :
        IF last_row < FirstPupilRow(f) THEN Ok(<<>>)
        ELSE
        Then(FindAverageColumnOf(f), LAMBDA average_col :
            IF f.kind = "semester" THEN SemesterPupilData(f, 14, average_col, last_row)
            ELSE IF f.kind = "period" THEN PeriodPupilData(f, 12, average_col, last_row)
            ELSE GroupPupilData(f, 18, average_col, last_row)))

\* The names of a list of pupils, one to a line
RECURSIVE PupilNames(_)
PupilNames(pupils) ==
    IF pupils = <<>> THEN ""
    ELSE (IF IsStr(pupils[1].name) THEN pupils[1].name.s ELSE "?") \o "\n"
            \o PupilNames(Tail(pupils))

\* A list of pupils as a value: how many they are, and their names
PupilsOutcome(x) ==
    IF Failed(x) THEN x.err
    ELSE [k |-> "pupils", s |-> PupilNames(x.val), n |-> Len(x.val), d |-> 1]

-----------------------------------------------------------------------------
(* anonymize_pupil_names, src/analyser/summaries.py:152-183 *)

\* The lists of generate_unique_name, summaries.py:157-158
names ==
    <<"Antanas", "Bernardas", "Cezis", "Dainius", "Ernestas", "Henrikas", "Jonas",
      "Petras", "Tilius">>
surnames ==
    <<"Antanivicius", "Petraitis", "Brazdzionis", "Katiliskis", "Mickevicius",
      "Juozevicius", "Eilerastinis">>

\* How many entries of each list random.choice draws from here
NamesDrawn == 2
SurnamesDrawn == 2

\* What f"{random.choice(names)} {random.choice(surnames)}" can give,
\* summaries.py:160
Combinations ==
    {names[a] \o " " \o surnames[b] : a \in 1..NamesDrawn, b \in 1..SurnamesDrawn}

\* x in l of Python for a list l
InList(x, l) == \E k \in 1..Len(l) : l[k] = x

\* A Python list as a value
PyList(l) == [k |-> "list", s |-> "", n |-> Len(l), d |-> 1, items |-> l]

NoPosition == [phase |-> "idle", i |-> 0, j |-> 0]

NotAnonymizing ==
    /\ summaries_copy = <<>> /\ cached_combinations = <<>>
    /\ pupil_name_binds = <<>> /\ unique_name = "" /\ where = NoPosition

\* The lists of summaries the function is called with: one pupil more than
\* there are combinations, in one summary or spread over two, with and
\* without pupils in both
MaxPupils == Cardinality(Combinations) + 1

PupilsFromTo(a, b) ==
    [k \in 1..(b - a + 1) |-> NewPupil(Str(PupilNameAt(a + k - 1)), <<>>, PyNone,
                                       <<0, 0, 0, 0>>)]

SummaryOfPupils(a, b) ==
    NewSummary("period", "5", "", YearStart(2021).val, YearStart(2022).val,
               PupilsFromTo(a, b))

SummaryLists ==
    {<<>>}
    \cup {<<SummaryOfPupils(1, a)>> : a \in 0..MaxPupils}
    \cup {<<SummaryOfPupils(1, a), SummaryOfPupils(b, c)>> :
            a \in 0..MaxPupils, b \in 1..MaxPupils, c \in 1..MaxPupils}

-----------------------------------------------------------------------------
(* Specifications: Spec runs one batch aggregator over a list of files,     *)
(* MarkSpec applies Mark.clean to one raw value, SheetSpec makes one call   *)
(* of get_cell, of a locator or of a row reader on one sheet, SummarySpec   *)
(* reads one derived property of a semester summary, SubjectSpec classifies *)
(* one subject against one ignore list, AnonSpec runs anonymize_pupil_names *)
(* on one list of summaries.                                                *)

Init ==
    /\ layout \in Layouts
    /\ \E len \in 1..MaxFiles : files \in [1..len -> InputFiles(layout)]
    /\ idx = 1
    /\ summaries = <<>>
    /\ accepted = <<>>
    /\ log = <<>>
    /\ pc = "loop"
    /\ handles = {}
    /\ raw = PyNone /\ result = Unset /\ mpc = "idle"
    /\ sheet = PyNone /\ call = NoCall /\ out = Unset
    /\ target = PyNone /\ member = "" /\ answer = Unset
    /\ NotAnonymizing

Next ==
    \/ SemesterStep /\ UNCHANGED markVars /\ UNCHANGED sheetVars
                    /\ UNCHANGED objVars
    \/ PeriodStep /\ UNCHANGED markVars /\ UNCHANGED sheetVars
                    /\ UNCHANGED objVars
    \/ GroupStep /\ UNCHANGED markVars /\ UNCHANGED sheetVars
                    /\ UNCHANGED objVars
    \/ Return /\ UNCHANGED markVars /\ UNCHANGED sheetVars
                    /\ UNCHANGED objVars

Spec == Init /\ [][Next]_vars

MarkInit ==
    /\ raw \in RawValues
    /\ result = Unset
    /\ mpc = "new"
    /\ layout = "semester" /\ files = <<>> /\ idx = 1 /\ summaries = <<>>
    /\ accepted = <<>> /\ log = <<>> /\ pc = "idle" /\ handles = {}
    /\ sheet = PyNone /\ call = NoCall /\ out = Unset
    /\ target = PyNone /\ member = "" /\ answer = Unset
    /\ NotAnonymizing

\* Reading the clean property of a Mark, models.py:99-146
MarkClean ==
    /\ mpc = "new"
    /\ result' = Clean(raw)
    /\ mpc' = "done"
    /\ UNCHANGED raw
    /\ UNCHANGED aggVars
    /\ UNCHANGED sheetVars
    /\ UNCHANGED objVars

MarkNext == MarkClean

MarkSpec == MarkInit /\ [][MarkNext]_vars

-----------------------------------------------------------------------------
(* Semester summaries whose derived properties are read *)

GradeLabels ==
    {"5", "12", "05", "5 klase", "-5", "5.5", "8a", "I", "II", "III", "IV", "I g",
     "IIIa", "V", "Ia klase", ""}

SemesterTypes ==
    {"I", "II", "III", "IV", "I pusmetis", "II pusmetis", "III trimestras", "metinis", ""}

SummaryInit ==
    /\ \E label \in GradeLabels, type \in SemesterTypes :
            target = [label |-> label,
                      summary |-> NewSummary("semester", label, type,
                                             YearStart(2020).val, YearStart(2021).val,
                                             <<>>)]
    /\ member \in {"grade_name_as_int", "type_as_int"}
    /\ answer = Unset
    /\ NotAnonymizing
    /\ layout = "semester" /\ files = <<>> /\ idx = 1 /\ summaries = <<>>
    /\ accepted = <<>> /\ log = <<>> /\ pc = "idle" /\ handles = {}
    /\ raw = PyNone /\ result = Unset /\ mpc = "idle"
    /\ sheet = PyNone /\ call = NoCall /\ out = Unset

\* ClassReportSummary.grade_name_as_int, summaries.py:79-86
GradeNameAsIntRead ==
    /\ answer = Unset /\ member = "grade_name_as_int"
    /\ answer' = PyInt(GradeNameAsInt(target.summary))
    /\ UNCHANGED <<target, member>>
    /\ UNCHANGED <<aggVars, markVars, sheetVars, anonVars>>

\* ClassSemesterReportSummary.type_as_int, summaries.py:122-136
TypeAsIntRead ==
    /\ answer = Unset /\ member = "type_as_int"
    /\ answer' = PyInt(TypeAsInt(target.summary))
    /\ UNCHANGED <<target, member>>
    /\ UNCHANGED <<aggVars, markVars, sheetVars, anonVars>>

SummaryNext == GradeNameAsIntRead \/ TypeAsIntRead

SummarySpec == SummaryInit /\ [][SummaryNext]_vars

-----------------------------------------------------------------------------
(* Subjects and ignore lists the classifier is applied to *)

MaxLines == 2

NameParts == {"", "a", "b"}

SubjectNamesTried ==
    {x \o y \o z : x \in NameParts, y \in NameParts, z \in NameParts}
    \cup {"Etika", "Etika (pradine)", "Dorinis ugdymas (etika)", "Matematika",
          "Matematikos modulis", "Neformalusis ugdymas"}

IgnoreWords == {"a", "ab", "Etika"}

\* The lines of an ignore list: a word bare and with a star on either side,
\* an empty line, a lone star, and a line with a trailing blank
IgnoreLines ==
    {pre \o w \o suf : pre \in {"", "*"}, w \in IgnoreWords, suf \in {"", "*"}}
    \cup {"", "*", "Etika* "}

IgnoreFiles ==
    {[exists |-> FALSE, lines |-> <<>>]}
    \cup {[exists |-> TRUE, lines |-> ls] :
            ls \in UNION {[1..n -> IgnoreLines] : n \in 0..MaxLines}}

SubjectClasses == {"analyser.models.UnifiedSubject", "models.UnifiedSubject"}

SubjectMembers(cls) ==
    IF cls = "models.UnifiedSubject" THEN {"is_ignored"}
    ELSE {"is_name_ignored", "is_ignored"}

SubjectInit ==
    /\ target \in [cls : SubjectClasses, name : SubjectNamesTried, file : IgnoreFiles]
    /\ member \in SubjectMembers(target.cls)
    /\ answer = Unset
    /\ NotAnonymizing
    /\ layout = "semester" /\ files = <<>> /\ idx = 1 /\ summaries = <<>>
    /\ accepted = <<>> /\ log = <<>> /\ pc = "idle" /\ handles = {}
    /\ raw = PyNone /\ result = Unset /\ mpc = "idle"
    /\ sheet = PyNone /\ call = NoCall /\ out = Unset

\* UnifiedSubject.is_name_ignored(), models.py:159-178
IsNameIgnoredCall ==
    /\ answer = Unset /\ member = "is_name_ignored"
    /\ answer' = PyBool(IsNameIgnored(target.name, GetIgnoredItemFilters(target.file)))
    /\ UNCHANGED <<target, member>>
    /\ UNCHANGED <<aggVars, markVars, sheetVars, anonVars>>

\* UnifiedSubject.is_ignored, models.py:180-185
IsIgnoredRead ==
    /\ answer = Unset /\ member = "is_ignored"
    /\ target.cls = "analyser.models.UnifiedSubject"
    /\ answer' = PyBool(IsIgnored(target.name, GetIgnoredItemFilters(target.file)))
    /\ UNCHANGED <<target, member>>
    /\ UNCHANGED <<aggVars, markVars, sheetVars, anonVars>>

\* UnifiedSubject.is_ignored of src/models.py:134-166
LegacyIsIgnoredRead ==
    /\ answer = Unset /\ member = "is_ignored"
    /\ target.cls = "models.UnifiedSubject"
    /\ answer' = PyBool(LegacyIsIgnored(target.name))
    /\ UNCHANGED <<target, member>>
    /\ UNCHANGED <<aggVars, markVars, sheetVars, anonVars>>

SubjectNext == IsNameIgnoredCall \/ IsIgnoredRead \/ LegacyIsIgnoredRead

SubjectSpec == SubjectInit /\ [][SubjectNext]_vars

AnonInit ==
    /\ target \in SummaryLists
    /\ member = "anonymize_pupil_names"
    /\ answer = Unset
    /\ summaries_copy = <<>> /\ cached_combinations = <<>>
    /\ pupil_name_binds = <<>> /\ unique_name = ""
    /\ where = [phase |-> "called", i |-> 0, j |-> 0]
    /\ layout = "period" /\ files = <<>> /\ idx = 1 /\ summaries = <<>>
    /\ accepted = <<>> /\ log = <<>> /\ pc = "idle" /\ handles = {}
    /\ raw = PyNone /\ result = Unset /\ mpc = "idle"
    /\ sheet = PyNone /\ call = NoCall /\ out = Unset

\* summaries = deepcopy(summaries), summaries.py:154
DeepCopy ==
    /\ where.phase = "called"
    /\ summaries_copy' = target
    /\ where' = [phase |-> "bind", i |-> 1, j |-> 1]
    /\ UNCHANGED <<cached_combinations, pupil_name_binds, unique_name>>
    /\ UNCHANGED <<target, member, answer>>
    /\ UNCHANGED <<aggVars, markVars, sheetVars>>

\* The two for loops of summaries.py:169-174 on a pupil whose name is bound,
\* at the end of a summary and at the end of the list
BindLoop ==
    /\ where.phase = "bind"
    /\ IF where.i > Len(summaries_copy)
       THEN where' = [phase |-> "apply", i |-> 1, j |-> 1]
       ELSE IF where.j > Len(summaries_copy[where.i].pupils)
       THEN where' = [where EXCEPT !.i = where.i + 1, !.j = 1]
       ELSE /\ summaries_copy[where.i].pupils[where.j].name.s \in DOMAIN pupil_name_binds
            /\ where' = [where EXCEPT !.j = where.j + 1]
    /\ UNCHANGED <<summaries_copy, cached_combinations, pupil_name_binds, unique_name>>
    /\ UNCHANGED <<target, member, answer>>
    /\ UNCHANGED <<aggVars, markVars, sheetVars>>

\* A pupil whose name is not bound: generate_unique_name is called and
\* makes its first draw, summaries.py:171-173, 160
FirstDraw ==
    /\ where.phase = "bind"
    /\ where.i <= Len(summaries_copy) /\ where.j <= Len(summaries_copy[where.i].pupils)
    /\ summaries_copy[where.i].pupils[where.j].name.s \notin DOMAIN pupil_name_binds
    /\ unique_name' \in Combinations
    /\ where' = [where EXCEPT !.phase = "generate"]
    /\ UNCHANGED <<summaries_copy, cached_combinations, pupil_name_binds>>
    /\ UNCHANGED <<target, member, answer>>
    /\ UNCHANGED <<aggVars, markVars, sheetVars>>

\* One pass of the while loop, summaries.py:161-162
Redraw ==
    /\ where.phase = "generate"
    /\ InList(unique_name, cached_combinations)
    /\ unique_name' \in Combinations
    /\ UNCHANGED <<summaries_copy, cached_combinations, pupil_name_binds, where>>
    /\ UNCHANGED <<target, member, answer>>
    /\ UNCHANGED <<aggVars, markVars, sheetVars>>

\* A pass of the while loop that draws a combination not handed out yet
FreshRedraw == Redraw /\ ~InList(unique_name', cached_combinations)

\* The while loop is left: summaries.py:163-164, 173
Bind ==
    /\ where.phase = "generate"
    /\ ~InList(unique_name, cached_combinations)
    /\ cached_combinations' = Append(cached_combinations, unique_name)
    /\ pupil_name_binds' =
            pupil_name_binds @@ (summaries_copy[where.i].pupils[where.j].name.s :> unique_name)
    /\ where' = [where EXCEPT !.phase = "bind", !.j = where.j + 1]
    /\ UNCHANGED <<summaries_copy, unique_name>>
    /\ UNCHANGED <<target, member, answer>>
    /\ UNCHANGED <<aggVars, markVars, sheetVars>>

\* The two for loops of summaries.py:177-180
Apply ==
    /\ where.phase = "apply"
    /\ where.i <= Len(summaries_copy)
    /\ IF where.j > Len(summaries_copy[where.i].pupils)
       THEN /\ where' = [where EXCEPT !.i = where.i + 1, !.j = 1]
            /\ UNCHANGED summaries_copy
       ELSE /\ summaries_copy' =
                    [summaries_copy EXCEPT ![where.i].pupils[where.j].name =
                        Str(pupil_name_binds[summaries_copy[where.i].pupils[where.j].name.s])]
            /\ where' = [where EXCEPT !.j = where.j + 1]
    /\ UNCHANGED <<cached_combinations, pupil_name_binds, unique_name>>
    /\ UNCHANGED <<target, member, answer>>
    /\ UNCHANGED <<aggVars, markVars, sheetVars>>

\* return summaries, summaries.py:183
ReturnCopy ==
    /\ where.phase = "apply"
    /\ where.i > Len(summaries_copy)
    /\ answer' = PyList(summaries_copy)
    /\ where' = [where EXCEPT !.phase = "returned"]
    /\ UNCHANGED <<summaries_copy, cached_combinations, pupil_name_binds, unique_name>>
    /\ UNCHANGED <<target, member>>
    /\ UNCHANGED <<aggVars, markVars, sheetVars>>

AnonNext ==
    \/ DeepCopy
    \/ BindLoop
    \/ FirstDraw
    \/ Redraw
    \/ Bind
    \/ Apply
    \/ ReturnCopy

\* random.choice is uniform: while a combination is left that was not handed
\* out, the while loop does not draw handed-out ones for ever
AnonSpec ==
    AnonInit /\ [][AnonNext]_vars /\ WF_vars(AnonNext) /\ WF_vars(FreshRedraw)

SheetInit ==
    /\ sheet \in {f \in Sheets : f.opens}
    /\ call \in CallsOn(sheet) \cup AttendanceCallsOn(sheet)
    /\ out = Unset
    /\ layout = sheet.kind /\ files = <<>> /\ idx = 1 /\ summaries = <<>>
    /\ accepted = <<>> /\ log = <<>> /\ pc = "idle" /\ handles = {}
    /\ raw = PyNone /\ result = Unset /\ mpc = "idle"
    /\ target = PyNone /\ member = "" /\ answer = Unset
    /\ NotAnonymizing

\* UnifiedSheet.get_cell(column, row), reading.py:20-26
GetCellCall ==
    /\ out = Unset /\ call.op = "get_cell"
    /\ out' = GetCell(sheet, call.column, call.row)
    /\ UNCHANGED <<sheet, call>>
    /\ UNCHANGED aggVars
    /\ UNCHANGED markVars
    /\ UNCHANGED objVars

\* parsing.py:120-130, 211-221, 306-316
FindAverageColumnCall ==
    /\ out = Unset /\ call.op = "_find_average_column"
    /\ out' = Outcome(FindAverageColumnOf(sheet))
    /\ UNCHANGED <<sheet, call>>
    /\ UNCHANGED aggVars
    /\ UNCHANGED markVars
    /\ UNCHANGED objVars

\* parsing.py:49-60, 318-329
FindLastPupilRowCall ==
    /\ out = Unset /\ call.op = "_find_last_pupil_row"
    /\ out' = Outcome(FindLastPupilRowOf(sheet))
    /\ UNCHANGED <<sheet, call>>
    /\ UNCHANGED aggVars
    /\ UNCHANGED markVars
    /\ UNCHANGED objVars

\* parsing.py:132-144, 223-224, 330-331
FindAttendanceColumnCall ==
    /\ out = Unset /\ call.op = "_find_attendance_column"
    /\ out' = Outcome(FindAttendanceColumnOf(sheet))
    /\ UNCHANGED <<sheet, call>>
    /\ UNCHANGED aggVars
    /\ UNCHANGED markVars
    /\ UNCHANGED objVars

\* parsing.py:66-80, 280-294
GetPupilAttendanceCall ==
    /\ out = Unset /\ call.op = "get_pupil_attendance"
    /\ out' = AttendanceOutcome(GetPupilAttendanceOf(sheet, call.row))
    /\ UNCHANGED <<sheet, call>>
    /\ UNCHANGED aggVars
    /\ UNCHANGED markVars
    /\ UNCHANGED objVars

\* parsing.py:150-160, 230-240, 347-356
GetPupilDataCall ==
    /\ out = Unset /\ call.op = "get_pupil_data"
    /\ out' = PupilsOutcome(GetPupilDataOf(sheet))
    /\ UNCHANGED <<sheet, call>>
    /\ UNCHANGED aggVars
    /\ UNCHANGED markVars
    /\ UNCHANGED objVars

SheetNext ==
    \/ GetCellCall
    \/ FindAverageColumnCall
    \/ FindLastPupilRowCall
    \/ FindAttendanceColumnCall
    \/ GetPupilAttendanceCall
    \/ GetPupilDataCall

SheetSpec == SheetInit /\ [][SheetNext]_vars

-----------------------------------------------------------------------------
(* Properties of the batch aggregators, checked under Spec *)

\* The log has one entry per file the loop has gone past, in input order
Rejected(i, reason) ==
    \E e \in 1..Len(log) : log[e].file = i /\ log[e].reason = reason

Accepted(i) == \E a \in 1..Len(accepted) : accepted[a] = i

\* C1: whatever the files hold, an aggregator returns normally: no exception
\* escapes it, and once it has returned every file has been processed.
C1_ReturnsNormally ==
    /\ pc # "raised"
    /\ pc = "returned" =>
            \A i \in 1..Len(files) : \E e \in 1..Len(log) : log[e].file = i

\* Does the normaliser recognise every mark of the summary?
Normalizable(v) == ~IsRaised(Clean(v))

AllMarksNormalizable(sm) ==
    \A p \in 1..Len(sm.pupils) :
        /\ Normalizable(sm.pupils[p].average)
        /\ \A j \in 1..Len(sm.pupils[p].subjects) :
                Normalizable(sm.pupils[p].subjects[j].mark)

\* C2: a file with a subject mark or an average the normaliser does not
\* recognise fails to parse and is rejected: no summary an aggregator holds
\* contains a mark the normaliser cannot clean.
C2_NoUnrecognisedMark ==
    \A i \in 1..Len(summaries) : AllMarksNormalizable(summaries[i])

\* Does some pupil's average clean to None?
AbsentAverage(sm) ==
    \E p \in 1..Len(sm.pupils) : Clean(sm.pupils[p].average) = PyNone

\* C3: parse_periodic_summary_files leaves out every period file in which
\* some pupil's average cleans to None: its result holds no such summary, and
\* meeting such a file it goes on to the next file with the result unchanged.
C3_IncompleteExcluded ==
    /\ [](layout = "period" =>
            \A i \in 1..Len(summaries) : ~AbsentAverage(summaries[i]))
    /\ [][(/\ layout = "period" /\ pc = "loop" /\ idx <= Len(files)
           /\ ~Failed(Parse("period", files[idx]))
           /\ AbsentAverage(Parse("period", files[idx]).val))
          => (pc' = "loop" /\ idx' = idx + 1 /\ summaries' = summaries)]_vars

\* A well-formed file of the aggregator's layout, in either format, but for a
\* zero in the cell under the last pupil's average
ZeroFooter(f) ==
    \E fmt \in Formats : f = [GoodFile(layout, fmt, 1) EXCEPT !.footer = PyInt(0)]

\* C4: in every layout and either format, a file with a zero under the last
\* pupil's average fails with InconclusiveResourceError and adds no summary.
C4_ZeroFooterInconclusive ==
    \A e \in 1..Len(log) :
        (log[e].file # 0 /\ ZeroFooter(files[log[e].file])) =>
            /\ log[e].reason = "InconclusiveResourceError"
            /\ ~Accepted(log[e].file)

\* The report-type header cell of a file as the aggregator's layout places it
HeaderCell(f) == IF layout = "semester" THEN Stored(f, 1, 2) ELSE Stored(f, 1, 1)

\* C5: a readable file whose report-type header cell is not exactly the
\* report-type text of the layout fails with InvalidResourceTypeError and
\* gives no summary.
C5_WrongTypeInvalid ==
    /\ \A i \in 1..Len(files) :
            (files[i].opens /\ HeaderCell(files[i]) # Str(ReportTypeOf(layout))) =>
                ~Accepted(i)
    /\ \A e \in 1..Len(log) :
            (/\ log[e].file # 0
             /\ files[log[e].file].opens
             /\ HeaderCell(files[log[e].file]) # Str(ReportTypeOf(layout))) =>
                log[e].reason = "InvalidResourceTypeError"

\* A file an aggregator accepts when no earlier file has its label
Acceptable(f) ==
    /\ ~Failed(Parse(layout, f))
    /\ Parse(layout, f).val.type # "metinis"
    /\ AllMarksNormalizable(Parse(layout, f).val)
    /\ layout # "semester" => ~AbsentAverage(Parse(layout, f).val)

LabelOf(f) == RepresentableName(Parse(layout, f).val)

\* C6: no two accepted summaries have the same representable_name, and when
\* the aggregator has ended, of two acceptable files with the same label the
\* earlier (the first with that label) is accepted and the later is logged
\* as rejected, once.
C6_OnePerLabel ==
    /\ \A i, j \in 1..Len(summaries) :
            i # j => RepresentableName(summaries[i]) # RepresentableName(summaries[j])
    /\ pc \in {"returned", "raised"} =>
        \A i, j \in 1..Len(files) :
            (/\ i < j
             /\ Acceptable(files[i]) /\ Acceptable(files[j])
             /\ LabelOf(files[i]) = LabelOf(files[j])
             /\ \A k \in 1..(i - 1) :
                    Acceptable(files[k]) => LabelOf(files[k]) # LabelOf(files[i])) =>
                /\ Accepted(i) /\ ~Accepted(j)
                /\ Cardinality({e \in 1..Len(log) : log[e].file = j}) = 1
                /\ Rejected(j, "duplicate")

-----------------------------------------------------------------------------
(* Properties of Mark.clean, checked under MarkSpec *)

\* C7: for every numeric raw value v (int or float), Mark(v).clean is None
\* exactly if v equals 0, and otherwise is v itself.
C7_NumericMark ==
    (mpc = "done" /\ IsNumber(raw)) =>
        /\ (result = PyNone) <=> PyEq(raw, PyInt(0))
        /\ ~PyEq(raw, PyInt(0)) => result = raw

C7_Witness == mpc = "done" /\ raw = PyFloat(0, 10) /\ raw.k = "float" /\ result = PyNone

\* The numerals of the claims: digits, or digits "." digits
IsNumeral(t) ==
    LET dot == IndexOf(t, ".", 1)
    IN  IF dot = 0 THEN IsDecimal(t)
        ELSE IsDecimal(SubSeq(t, 1, dot - 1)) /\ IsDecimal(From(t, dot + 1))

\* The value of a numeral, integer part and fraction part read apart
NumeralValue(t) ==
    LET dot == IndexOf(t, ".", 1)
    IN  IF dot = 0 THEN PyFloat(DigitsValue(t), 1)
        ELSE PyFloat(DigitsValue(SubSeq(t, 1, dot - 1)) * Pow10(Len(t) - dot)
                        + DigitsValue(From(t, dot + 1)),
                     Pow10(Len(t) - dot))

\* The text without its program suffix "IN" or "PR", when it carries one
WithoutSuffix(t) ==
    IF EndsWith(t, "IN") \/ EndsWith(t, "PR") THEN SubSeq(t, 1, Len(t) - 2) ELSE t

\* C8: a text that without its program suffix is a numeral cleans to None when
\* the numeral is "0" or "0.0", and otherwise to the number the numeral denotes.
C8_TextNumeral ==
    (mpc = "done" /\ IsStr(raw) /\ IsNumeral(WithoutSuffix(raw.s))) =>
        IF WithoutSuffix(raw.s) \in {"0", "0.0"} THEN result = PyNone
        ELSE IsNumber(result) /\ PyEq(result, NumeralValue(WithoutSuffix(raw.s)))

C8_Witness == mpc = "done" /\ raw = Str("9.7PR") /\ result = PyFloat(97, 10)

\* C9: "isk" cleans to True and "nsk" to False, bare or with the program
\* suffix "IN" or "PR".
C9_PassedTokens ==
    (mpc = "done" /\ IsStr(raw)) =>
        /\ raw.s \in {"isk", "iskIN", "iskPR"} => result = PyBool(TRUE)
        /\ raw.s \in {"nsk", "nskIN", "nskPR"} => result = PyBool(FALSE)

C9_Witness == mpc = "done" /\ raw = Str("nskPR") /\ result = PyBool(FALSE)

\* C10: "-", "atl", "n", "nk", "nl" and every text that ends in "val." or
\* "val" clean to None.
C10_AbsentTokens ==
    (mpc = "done" /\ IsStr(raw)) =>
        ((raw.s \in {"-", "atl", "n", "nk", "nl"}
            \/ EndsWith(raw.s, "val.") \/ EndsWith(raw.s, "val")) => result = PyNone)

C10_Witness == mpc = "done" /\ raw = Str("12 val") /\ result = PyNone

\* C13: no finished file's reader is left open: whenever the loop has gone
\* past a file, with a summary or with a failure of the constructor or of
\* create_summary, close has been called on its reader.
C13_HandlesReleased == \A i \in handles : i >= idx

\* C14: every locator scan ends on every grid: no call of an aggregator is
\* left scanning forever, and a file whose probe row lacks its marker is
\* rejected with a failure of that file.
C14_ScansTerminate ==
    /\ pc # "hung"
    /\ \A i \in 1..(idx - 1) :
            ~files[i].marker =>
                \E e \in 1..Len(log) :
                    log[e].file = i /\ log[e].level \in {"error", "exception"}

\* C17: parse_semester_summary_files holds no summary of type "metinis", and
\* every file whose period cell names the annual report is left out.
C17_NoAnnualSummary ==
    layout = "semester" =>
        /\ \A i \in 1..Len(summaries) : summaries[i].type # "metinis"
        /\ \A i \in 1..(idx - 1) : files[i].term = AnnualTerm => ~Accepted(i)

C17_Witness ==
    /\ layout = "semester" /\ pc = "returned" /\ Len(summaries) = 1
    /\ \E i \in 1..Len(files) : files[i].term = AnnualTerm /\ Rejected(i, "annual")

\* C18: the files are processed in input order and the result is a
\* subsequence of the input: the accepted positions increase strictly, the
\* i-th summary is the one parsed from the i-th accepted file, and the log
\* entries follow the input order.
C18_InputOrder ==
    /\ Len(accepted) = Len(summaries)
    /\ \A i \in 1..Len(accepted) :
            /\ accepted[i] \in 1..(idx - 1)
            /\ summaries[i] = Parse(layout, files[accepted[i]]).val
    /\ \A i, j \in 1..Len(accepted) : i < j => accepted[i] < accepted[j]
    /\ \A i, j \in 1..Len(log) :
            (i < j /\ log[j].file # 0) => log[i].file < log[j].file

C18_Witness ==
    /\ pc = "returned" /\ accepted = <<1, 2>> /\ Len(summaries) = 2
    /\ summaries[1] # summaries[2]

-----------------------------------------------------------------------------
(* Properties of the sheet reader and of the locators, checked under SheetSpec *)

InsideSheet(f, column, row) == column <= NCols(f) /\ row <= NRows(f)

\* C15: get_cell returns None and raises nothing for every coordinate outside
\* the populated region of the sheet, in both formats.
C15_OutsideIsNone ==
    (call.op = "get_cell" /\ out # Unset /\ ~InsideSheet(sheet, call.column, call.row))
        => out = PyNone

\* The same grid in the other container format
InFormat(f, fmt) == [f EXCEPT !.fmt = fmt]

\* C16: for the same grid and the same (column, row) inside it, get_cell
\* returns the same value, as Python's == compares values, whichever format
\* backs the sheet.
C16_SameInBothFormats ==
    (call.op = "get_cell" /\ out # Unset /\ InsideSheet(sheet, call.column, call.row))
        => \A fmt \in Formats :
                PyEq(out, GetCell(InFormat(sheet, fmt), call.column, call.row))

\* The probe row of each layout and the first column its scan reads
ProbeRow(f) == IF f.kind = "semester" THEN 3 ELSE IF f.kind = "period" THEN 2 ELSE 17
SeedColumn(f) == IF f.kind = "semester" THEN 4 ELSE 5

\* The first column from the seed whose probe cell, as get_cell returns
\* it, satisfies P; 0 if the sheet has none
FirstColumn(f, P(_)) ==
    LET cs == {c \in SeedColumn(f)..NCols(f) : P(GetCell(f, c, ProbeRow(f)))}
    IN  IF cs = {} THEN 0 ELSE CHOOSE c \in cs : \A d \in cs : c <= d

NonEmptyString(v) == IsStr(v) /\ Len(v.s) > 0
NotNone(v) == ~IsNone(v) /\ ~IsRaised(v)
IsVidurkis(v) == v = Str("Vidurkis")

\* C19 as stated: the average column is the column immediately after the
\* marker cell, the first non-empty string cell of the probe row from the
\* seed column.
C19_ColumnAfterMarker ==
    (call.op = "_find_average_column" /\ out # Unset
        /\ FirstColumn(sheet, NonEmptyString) # 0)
        => out = PyInt(FirstColumn(sheet, NonEmptyString) + 1)

\* The marker cell each parser class stops at
MarkerColumn(f) ==
    IF f.kind = "group" THEN FirstColumn(f, IsVidurkis) ELSE FirstColumn(f, NotNone)

\* C19 as amended: in the semester layout the marker is the first cell that
\* is not None and the average column is the column immediately before it; in
\* the period layout the marker is the first cell that is not None, in the
\* group layout the first cell equal to "Vidurkis", and the average column is
\* the marker's own column.
C19_ColumnByMarker ==
    (call.op = "_find_average_column" /\ out # Unset /\ MarkerColumn(sheet) # 0)
        => out = PyInt(IF sheet.kind = "semester" THEN MarkerColumn(sheet) - 1
                       ELSE MarkerColumn(sheet))

C19_Witness ==
    /\ call.op = "_find_average_column" /\ sheet.kind = "period" /\ sheet.nsubj = 1
    /\ MarkerColumn(sheet) = 5 /\ out = PyInt(5)

\* The first row the scan of column 1 reads
SeedRow(f) == IF f.kind = "group" THEN 18 ELSE 14

\* The first row from the seed whose cell in column 1, as get_cell returns
\* it, satisfies P; 0 if the sheet has none
FirstRow(f, P(_)) ==
    LET rs == {r \in SeedRow(f)..NRows(f) : P(GetCell(f, 1, r))}
    IN  IF rs = {} THEN 0 ELSE CHOOSE r \in rs : \A q \in rs : r <= q

TerminatorRow(f) ==
    IF f.kind = "group" THEN FirstRow(f, IsNone) ELSE FirstRow(f, IsStr)

SecondTextColumn(f, first) ==
    LET cs == {c \in first..NCols(f) : IsStr(GetCell(f, c, 3))}
    IN  IF Cardinality(cs) < 2 THEN 0
        ELSE CHOOSE c \in cs : Cardinality({d \in cs : d < c}) = 1

\* The attendance column as the claim describes it, given the average column
ClaimedAttendanceColumn(f, avg) ==
    IF f.kind = "semester" THEN SecondTextColumn(f, avg + 1) ELSE avg + 1

\* The four cells from column att on in a pupil row, each as convert_value
\* gives it
BlockCells(f, att, row) ==
    [i \in 1..4 |-> ConvertValue(GetCell(f, att + i - 1, row)).n]

\* C21: in the semester layout the attendance column is the column of the
\* second textual cell of the probe row met from the column after the average
\* column on, in the period and group layouts it is the average column plus
\* one; the attendance read for a pupil is made of the four cells of the
\* pupil's row that start at that column.
C21_AttendanceColumn ==
    (out # Unset /\ ~Failed(FindAverageColumnOf(sheet))
        /\ ClaimedAttendanceColumn(sheet, FindAverageColumnOf(sheet).val) # 0)
    => /\ call.op = "_find_attendance_column" =>
            out = PyInt(ClaimedAttendanceColumn(sheet, FindAverageColumnOf(sheet).val))
       /\ call.op = "get_pupil_attendance" =>
            \E p \in Permutations(1..4) :
                out.s = AttendanceText(
                    [i \in 1..4 |->
                        BlockCells(sheet,
                            ClaimedAttendanceColumn(sheet, FindAverageColumnOf(sheet).val),
                            call.row)[p[i]]])

C21_Witness ==
    /\ call.op = "get_pupil_attendance" /\ sheet.kind = "semester" /\ call.row = 15
    /\ sheet.nsubj = 2 /\ sheet.fmt = "xlrd"
    /\ ClaimedAttendanceColumn(sheet, 5) = 8
    /\ out.k = "Attendance" /\ out.s = "3,2,0,1"

-----------------------------------------------------------------------------
(* Properties of the subject classifier, checked under SubjectSpec *)

\* The entries of an ignore list: its lines without trailing blanks, the
\* empty ones left out; an absent file has none
EntriesOf(file) ==
    IF ~file.exists THEN {}
    ELSE {RStrip(file.lines[i]) : i \in 1..Len(file.lines)} \ {""}

\* The four kinds of entry and the name each carries
StarBoth(e) == Len(e) >= 2 /\ SubSeq(e, 1, 1) = "*" /\ SubSeq(e, Len(e), Len(e)) = "*"
StarLast(e) == Len(e) >= 1 /\ SubSeq(e, Len(e), Len(e)) = "*"
StarFirst(e) == Len(e) >= 1 /\ SubSeq(e, 1, 1) = "*"

EntryName(e) ==
    IF StarBoth(e) THEN SubSeq(e, 2, Len(e) - 1)
    ELSE IF StarLast(e) THEN SubSeq(e, 1, Len(e) - 1)
    ELSE IF StarFirst(e) THEN SubSeq(e, 2, Len(e))
    ELSE e

\* Does the entry match the subject name under its own kind: the entry's
\* name is the part of the subject name from i + 1 to j, anywhere for
\* "*name*", at the start for "name*", at the end for "*name", and the
\* whole of it for "name"
EntryMatches(e, name) ==
    \E i \in 0..Len(name) : \E j \in i..Len(name) :
        /\ SubSeq(name, i + 1, j) = EntryName(e)
        /\ (~StarBoth(e) /\ StarLast(e) => i = 0)
        /\ (~StarBoth(e) /\ ~StarLast(e) /\ StarFirst(e) => j = Len(name))
        /\ (~StarLast(e) /\ ~StarFirst(e) => i = 0 /\ j = Len(name))

\* C22: is_name_ignored is true exactly if some entry of the ignore list
\* matches the subject name under the entry's own kind: "name" the equal
\* name, "name*" the names that start with it, "*name" the names that end
\* with it, "*name*" the names that contain it.
C22_IgnoreListKinds ==
    (member = "is_name_ignored" /\ answer # Unset) =>
        (answer = PyBool(TRUE)
            <=> \E e \in EntriesOf(target.file) : EntryMatches(e, target.name))

C22_Witness ==
    /\ member = "is_name_ignored" /\ target.name = "Etika (pradine)"
    /\ target.file = [exists |-> TRUE, lines |-> <<"*a", "Etika*">>]
    /\ answer = PyBool(TRUE)

\* C23: is_ignored of the analyser's UnifiedSubject is true for a name that
\* contains the module marker, for a name an entry of the ignore list matches,
\* and for a name under the built-in moral-education rule ("Dorinis ugdymas
\* ..."), whatever the ignore list holds, also when it is empty or absent.
C23_IgnoredRules ==
    (member = "is_ignored" /\ answer # Unset
        /\ target.cls = "analyser.models.UnifiedSubject") =>
        /\ Find(target.name, "modulis", 1) # 0 => answer = PyBool(TRUE)
        /\ (\E e \in EntriesOf(target.file) : EntryMatches(e, target.name))
                => answer = PyBool(TRUE)
        /\ Slice(target.name, 0, 15) = "Dorinis ugdymas" => answer = PyBool(TRUE)

-----------------------------------------------------------------------------
(* Properties of the semester summary, checked under SummarySpec *)

\* The part of a text before its first blank
FirstToken(t) == IF Find(t, " ", 1) = 0 THEN t ELSE SubSeq(t, 1, Find(t, " ", 1) - 1)

\* A whole number in decimal digits, with or without a sign
IsWholeNumeral(t) ==
    \/ IsDecimal(t)
    \/ Len(t) > 1 /\ SubSeq(t, 1, 1) \in {"+", "-"} /\ IsDecimal(SubSeq(t, 2, Len(t)))

WholeNumeralValue(t) ==
    IF SubSeq(t, 1, 1) = "-" THEN 0 - DigitsValue(SubSeq(t, 2, Len(t)))
    ELSE IF SubSeq(t, 1, 1) = "+" THEN DigitsValue(SubSeq(t, 2, Len(t)))
    ELSE DigitsValue(t)

RomanGrades == [I |-> 9, II |-> 10, III |-> 11, IV |-> 12]

\* C24: a grade label made of digits only is stored with the grade word
\* after it; grade_name_as_int is the value of the first blank-separated token
\* of the grade name when the token is a whole number, 9, 10, 11, 12 for the
\* Roman tokens I, II, III, IV, and -1 for every other token.
C24_GradeNameAsInt ==
    (member = "grade_name_as_int") =>
        /\ IsDecimal(target.label) =>
                target.summary.grade_name = target.label \o " klase"
        /\ answer # Unset =>
                answer = PyInt(
                    IF IsWholeNumeral(FirstToken(target.summary.grade_name))
                    THEN WholeNumeralValue(FirstToken(target.summary.grade_name))
                    ELSE IF FirstToken(target.summary.grade_name) \in DOMAIN RomanGrades
                    THEN RomanGrades[FirstToken(target.summary.grade_name)]
                    ELSE -1)

C24_Witness ==
    /\ member = "grade_name_as_int" /\ target.label = "5"
    /\ target.summary.grade_name = "5 klase" /\ answer = PyInt(5)

RomanOrdinals == [I |-> 1, II |-> 2, III |-> 3, IV |-> 4]

\* C25 as stated: type_as_int is -1 for the annual type and otherwise the
\* ordinal of the Roman numeral the type starts with, n for the n-th period.
C25_TypeOrdinal ==
    (member = "type_as_int" /\ answer # Unset) =>
        IF target.summary.type = "metinis" THEN answer = PyInt(-1)
        ELSE FirstToken(target.summary.type) \in DOMAIN RomanOrdinals
                => answer = PyInt(RomanOrdinals[FirstToken(target.summary.type)])

\* C25 as amended: the same for the numerals I, II and III, the periods a
\* school year is assumed to have.
C25_TypeOrdinalToThree ==
    (member = "type_as_int" /\ answer # Unset) =>
        IF target.summary.type = "metinis" THEN answer = PyInt(-1)
        ELSE FirstToken(target.summary.type) \in {"I", "II", "III"}
                => answer = PyInt(RomanOrdinals[FirstToken(target.summary.type)])

C25_Witness ==
    /\ member = "type_as_int" /\ target.summary.type = "II pusmetis"
    /\ answer = PyInt(2)

-----------------------------------------------------------------------------
(* Properties of create_summary *)

PupilRows ==
    {RowA, RowB, RowBlankAverage, RowZeroAverage, RowUnknownMark, RowUnknownAverage}

\* The sheets that differ from f in nothing but what the pupil rows hold
OtherPupilData(f) ==
    {[f EXCEPT !.pupils = rows] : rows \in [1..Len(f.pupils) -> PupilRows]}

ChecksOfCreateSummary == {"InvalidResourceTypeError", "InconclusiveResourceError"}

\* C26: create_summary of the semester parser checks the report type, then the
\* footer, then walks the rows: the file just processed, if its report-type
\* cell is wrong, has failed with InvalidResourceTypeError, a zero footer or
\* not, and if it failed either check, fails in the same way whatever its
\* pupil rows hold.
C26_ChecksBeforeRows ==
    layout = "semester" =>
        /\ (/\ idx > 1
            /\ files[idx - 1].hdr # Str(ReportTypeSemester)
            /\ ~Failed(SemesterParser(files[idx - 1]))) =>
                Rejected(idx - 1, "InvalidResourceTypeError")
        /\ \A reason \in ChecksOfCreateSummary :
                (idx > 1 /\ Rejected(idx - 1, reason)) =>
                    \A g \in OtherPupilData(files[idx - 1]) :
                        SemesterCreateSummary(g, SemesterParser(g).val)
                            = Fail(Raise(reason))

C26_Witness ==
    /\ layout = "semester" /\ idx > 1
    /\ ~Failed(SemesterParser(files[1]))
    /\ files[1].hdr # Str(ReportTypeSemester)
    /\ files[1].footer = PyInt(0)
    /\ Len(files[1].pupils) > 0
    /\ Rejected(1, "InvalidResourceTypeError")

\* A period report that passes both checks of create_summary with every
\* pupil's average present
ValidPeriodFile(f) ==
    \E fmt \in Formats, t \in 1..Len(TermsOf("period")) : f = GoodFile("period", fmt, t)

\* C28: the period aggregator rejects a file as a duplicate only of the same
\* period: when a call of parse_periodic_summary_files has ended, two valid
\* files of its input whose reports cover different date ranges, the same
\* days of different years included, have both been accepted.
C28_DifferentPeriodsAccepted ==
    (layout = "period" /\ pc \in {"returned", "raised"}) =>
        \A i, j \in 1..Len(files) :
            (/\ ValidPeriodFile(files[i]) /\ ValidPeriodFile(files[j])
             /\ files[i].term # files[j].term) =>
                Accepted(i) /\ Accepted(j)

\* The footer of a period sheet: the first row from row 12 whose cell in
\* column 1 is textual; 0 if the sheet has none
PeriodFooterRow(f) ==
    LET rs == {r \in 12..NRows(f) : IsStr(GetCell(f, 1, r))}
    IN  IF rs = {} THEN 0 ELSE CHOOSE r \in rs : \A q \in rs : r <= q

\* The names in column 2 of the rows first..last, one to a line
RECURSIVE NamesOfRows(_, _, _)
NamesOfRows(f, first, last) ==
    IF first > last THEN ""
    ELSE GetCell(f, 2, first).s \o "\n" \o NamesOfRows(f, first + 1, last)

\* C29: in the period layout the pupils of a report are exactly the rows from
\* row 12 to the row above the footer, the first textual cell of column 1 from
\* row 12 on, however many pupils the report has, none and one included.
C29_PeriodPupilRows ==
    (/\ call.op = "get_pupil_data" /\ out # Unset /\ sheet.kind = "period"
     /\ sheet.marker /\ PeriodFooterRow(sheet) # 0) =>
        /\ out.k = "pupils"
        /\ out.n = PeriodFooterRow(sheet) - 12
        /\ out.s = NamesOfRows(sheet, 12, PeriodFooterRow(sheet) - 1)

-----------------------------------------------------------------------------
(* Properties of anonymize_pupil_names, checked under AnonSpec *)

\* The positions of the pupils of a list of summaries
PupilPositions(sums) ==
    {<<i, j>> : i \in 1..Len(sums), j \in 1..MaxPupils} \cap
        UNION {{<<i, j>> : j \in 1..Len(sums[i].pupils)} : i \in 1..Len(sums)}

\* In the returned copy two pupils bear the same name exactly if they bore
\* the same name in the argument
SameNamesSamePseudonyms ==
    /\ answer.k = "list" /\ answer.n = Len(target)
    /\ \A i \in 1..Len(target) :
            Len(answer.items[i].pupils) = Len(target[i].pupils)
    /\ \A p, q \in PupilPositions(target) :
            (target[p[1]].pupils[p[2]].name = target[q[1]].pupils[q[2]].name)
                <=> (answer.items[p[1]].pupils[p[2]].name
                        = answer.items[q[1]].pupils[q[2]].name)

\* C30: anonymize_pupil_names returns for every list of summaries, however
\* many different pupil names they hold, and in what it returns every
\* original name has one pseudonym of its own, the same in all summaries.
C30_TerminatesWithPseudonyms ==
    /\ <>(where.phase = "returned")
    /\ [](where.phase = "returned" => SameNamesSamePseudonyms)

-----------------------------------------------------------------------------
(* Properties of Mark.clean, continued *)

\* The tokens Mark.clean knows: those compared with the raw text and those
\* compared with the text rid of its program markers
RecognisedToken(t) ==
    \/ t \in {"-", "isk", "nsk", "atl", "n", "nk", "nl"}
    \/ EndsWith(t, "val.") \/ EndsWith(t, "val")
    \/ StripProgram(t) \in {"isk", "nsk", "atl"}

\* Does Python read the text as a number: digits with at most one "."
\* among them, anywhere, and at least one digit
ParsesAsNumber(t) ==
    /\ \A i \in 1..Len(t) : CharAt(t, i) \in DecimalChars \cup {"."}
    /\ Cardinality({i \in 1..Len(t) : CharAt(t, i) = "."}) <= 1
    /\ \E i \in 1..Len(t) : CharAt(t, i) \in DecimalChars

\* C11: a text that is no recognised token and that, rid of its program
\* markers, does not read as a number makes Mark.clean raise ValueError: it
\* yields no grade, no boolean and no None.
C11_UnrecognisedRaises ==
    (mpc = "done" /\ IsStr(raw) /\ ~RecognisedToken(raw.s)
        /\ ~ParsesAsNumber(StripProgram(raw.s))) => result = Raise("ValueError")

C11_Witness == mpc = "done" /\ raw = Str("9.9.") /\ result = Raise("ValueError")

\* The two removals of models.py:130-131 taken in the other order
StripPRThenIN(t) == RemoveAll(RemoveAll(t, "PR"), "IN")

\* A text free of "IN" and "PR" followed by any number of program markers
RECURSIVE MarkersAtEnd(_)
MarkersAtEnd(t) ==
    IF EndsWith(t, "IN") \/ EndsWith(t, "PR") THEN MarkersAtEnd(SubSeq(t, 1, Len(t) - 2))
    ELSE Find(t, "IN", 1) = 0 /\ Find(t, "PR", 1) = 0

\* C12 as stated: for every text, removing the program markers from a text
\* already rid of them changes nothing, and removing "PR" before "IN" gives
\* the same text as removing "IN" before "PR".
C12_StripAnyText ==
    (mpc = "done" /\ IsStr(raw)) =>
        /\ StripProgram(StripProgram(raw.s)) = StripProgram(raw.s)
        /\ StripPRThenIN(raw.s) = StripProgram(raw.s)

\* C12 as amended: the same two equalities for every text made of a text free
\* of "IN" and "PR" followed by any number of program markers.
C12_StripMarkersAtEnd ==
    (mpc = "done" /\ IsStr(raw) /\ MarkersAtEnd(raw.s)) =>
        /\ StripProgram(StripProgram(raw.s)) = StripProgram(raw.s)
        /\ StripPRThenIN(raw.s) = StripProgram(raw.s)

C12_Witness ==
    /\ mpc = "done" /\ raw = Str("9INPR") /\ MarkersAtEnd(raw.s)
    /\ StripProgram(raw.s) = "9" /\ result = PyFloat(9, 1)


\* C27: Mark.clean never yields a numeric zero: whenever it returns a number,
\* from a numeric or a textual raw value, the number differs from 0.
C27_NeverNumericZero ==
    (mpc = "done" /\ IsNumber(result)) => ~PyEq(result, PyInt(0))

=========================================================================
